---------------------------- MODULE Spec2Model ----------------------------
(***************************************************************************)
(* The podcast generation pipeline of solar-podcast-gen:                   *)
(*   PodcastGenerator (lib/podcast-generator.ts) - outline, research,      *)
(*   per-section script drafting and compilation, as an async generator    *)
(*   that yields GenerationProgress events and reports further events to   *)
(*   an optional onProgress callback;                                      *)
(*   POST /api/generate-podcast (route.ts) - the consumer that forwards    *)
(*   the yielded events to the client over a server-sent-event stream.     *)
(*                                                                         *)
(* One behaviour is one run of the pipeline.  An action is the code that   *)
(* runs between two waits for the outside world (a chat completion, a      *)
(* delta of a streamed completion, a web search, the retry timer): the     *)
(* yields of the generator and the loop body of its consumer in between    *)
(* are promise jobs, which no event from outside can interleave with.      *)
(***************************************************************************)
EXTENDS Integers, Sequences, FiniteSets, TLC

\* ------------------------------------------------------------------ bounds
\* Largest number of sections an outline response carries.
MaxSections == 3
\* Largest number of deltas the streamed completions of one run deliver.
MaxChunks == 1
\* Largest number of web searches of one run that fail although the search
\* client is configured.
MaxSearchFailures == 1

\* Largest number of characters a streamed completion delivers in all.
MaxStreamLen == 6
\* Largest number of characters of one delta of a streamed completion.
MaxDeltaLen == 2
\* Largest number of segments of the script of a generate-audio request.
MaxSegments == 3
\* Largest number of buffers handed to combineWavBuffers.
MaxBuffers == 2
\* Largest number of bytes after the header of a WAV buffer.
MaxPayload == 1
\* Largest number of startGeneration calls made.
MaxStartCalls == 3
\* Largest number of events in the body of a response the client reads.
MaxEvents == 3
\* Largest number of sections of the outline createFinalScript is called with.
MaxScripts == 2
\* Largest number of buffers of real size that are combined.
MaxAudioBuffers == 2
\* Largest data size of a downloaded file, in half seconds of mono 16-bit
\* audio at 44100 Hz.
MaxHalfSeconds == 4
\* Largest number of pieces the text given to cleanResponseForJSON is made of.
MaxPieces == 4
\* Largest number of dialogue exchanges in the scripts that are compiled.
MaxExchanges == 3
\* Largest number of events on the event stream the client reads.
MaxFrames == 4
\* Largest number of events on the audio stream the client reads.
MaxAudioEvents == 3
\* Largest number of events of the run that writes the generation record.
MaxRecordEvents == 3

\* ------------------------------------------------------- program constants
\* for (let attempt = 1; attempt <= 3; attempt++)
MaxOutlineAttempts == 3
\* outline.sections.length < 3 is rejected
MinSections == 3
\* sectionQueries.slice(0, 2)
QueriesPerSection == 2

VARIABLES
  driver,            \* who iterates the generator: "route" or "direct"
  hasCallback,       \* PodcastGenerator was constructed with onProgress
  instructionsGiven, \* the instructions argument is a string
  searchKeySet,      \* TAVILY_API_KEY is configured
  pc,                \* what generatePodcastScript is waiting for
  thrown,            \* the error the generator has raised
  attempt,           \* generatePodcastOutline: attempt
  lastError,         \* generatePodcastOutline: lastError
  nSections,         \* outline.sections.length (0 while there is no outline)
  secIdx,            \* loop index i of the research and of the script loop
  qIdx,              \* index into sectionQueries.slice(0, 2)
  searchResults,     \* searchResults.length of the section being researched
  searchContext,     \* per enriched section: searchContext.length
  searchFailures,    \* searches that failed with the client configured
  scripted,          \* sectionsWithScripts: the script of each section
  finalThoughtsDone, \* finalThoughtsScript has been produced
  chunks,            \* deltas received from the stream being read
  delivered,         \* deltas received from all the streams of the run
  finalScript,       \* generatePodcastScript: finalScript ("empty": "")
  events,            \* every GenerationProgress emitted, in emission order
  calls,             \* every upstream call issued, in issue order
  routePc,           \* position of the route's start(): "none" for a direct caller
  isControllerClosed,\* route: isControllerClosed
  isCancelled,       \* route: isCancelled
  streamState,       \* the ReadableStream: "readable", "closed", "cancelled"
  closeCalls,        \* number of controller.close() invocations
  sent,              \* events enqueued on the stream, in order
  passedAfterClose,  \* a stage boundary or section iteration was reached
                     \* after the client closed the stream
  activeGenerations, \* podcast-generation.tsx: the module-level Set of keys
  gen,               \* per startGeneration call: where it is and what it did
  upstream,          \* llm.ts: the content of all deltas received, in order
  contentBuffer,     \* streamChatCompletion: contentBuffer, as positions of
                     \* upstream
  yielded,           \* the strings streamChatCompletion yielded, as positions
  streamEnded,       \* "[DONE]" was received
  script,            \* generate-audio: script.length of the request
  audioPc,           \* generate-audio: where start() of its stream is
  segIdx,            \* generate-audio: i of the segment loop
  audioSegments,     \* generate-audio: script indices of audioSegments
  audioSent,         \* generate-audio: the events enqueued on the stream
  audioStream,       \* generate-audio: state of the stream
  ttsCalls,          \* script indices generateAudioSegment was called for
  outcomes,          \* per segment dealt with: "ok", "tts" or "upload"
  speakers,          \* segment.speaker of each line of the script
  mockMode,          \* MOCK_MODE
  apiCalls,          \* script indices of the openai.audio.speech.create calls
  wavBuffers,        \* combineWavBuffers: its argument, a list of byte strings
  combined,          \* combineWavBuffers: the buffer it returned
  wavResult,         \* "none", "ok" or "threw"
  combinePc,         \* combine-audio: where POST is
  segments,          \* combine-audio: audioSegments.length of the request
  response,          \* combine-audio: the response returned
  downloadFailed,    \* combine-audio: a download of the request failed
  uploaded,          \* files saved under podcasts/
  metadataWritten,   \* a document of the podcasts collection was set
  deleted,           \* segment files file.delete() was called for
  deleteFailures,    \* calls of file.delete() that were rejected
  run,               \* one startGeneration call: its position, its events, its writes
  llmResponse,       \* a response to the outline prompt: its syntax, its outline
  checkResult,       \* what was applied to the response, and the error it gave
  compileScripts,    \* the scripts of the outline createFinalScript is called with
  maxTokens,         \* the ceiling createFinalScript determined, 0 before
  audioBuffers,      \* combine-audio: the buffers downloaded, in their real sizes
  combinedAudioBuffer, \* what combineWavBuffers returned for them
  duration,          \* podcastData.duration, -1 before
  rawResponse,       \* the text cleanResponseForJSON is applied to
  cleaned,           \* what it returns for the text
  cleanedAgain,      \* what it returns for what it returned
  cleanPc,           \* how far the text was cleaned
  promptExchanges,   \* the number of dialogue exchanges in the compilation prompt
  compiledScript,    \* the lines of the final script
  compilePc,         \* how far createFinalScript is
  sseFrames,         \* the number of events the route sent
  sseRead,           \* the characters of the body the client has read
  sseHandled,        \* the events the client handled, in order
  ssePc,             \* how far the read loop is
  isGenerating,      \* the generating state of the audio component
  genError,          \* the error the audio component shows
  genBody,           \* the events of the audio stream not yet read
  errorEvents,       \* the error events the audio component has read
  genPc,             \* how far startAudioGeneration is
  recordStatus,      \* the status field of the generation record
  handledEvents,     \* the events of the run the client handled
  recordPc           \* how far the run that writes the record is

cfgVars == <<driver, hasCallback, instructionsGiven, searchKeySet>>
outlineVars == <<attempt, lastError, nSections>>
researchVars == <<qIdx, searchResults, searchContext, searchFailures>>
scriptVars == <<scripted, finalThoughtsDone, chunks, delivered>>
genVars == <<pc, thrown, outlineVars, secIdx, researchVars, scriptVars,
             finalScript>>
streamVars == <<isCancelled, streamState, closeCalls>>
routeVars == <<routePc, isControllerClosed, sent, streamVars>>
pipelineVars == <<cfgVars, genVars, events, calls, routeVars,
                  passedAfterClose>>
clientVars == <<activeGenerations, gen, run>>
\* the variables of the parts of the program other than the pipeline
thinkVars == <<upstream, contentBuffer, yielded, streamEnded>>
audioVars == <<script, audioPc, segIdx, audioSegments, audioSent,
               audioStream, ttsCalls, outcomes,
               speakers, mockMode, apiCalls>>
wavVars == <<wavBuffers, combined, wavResult>>
combineVars == <<combinePc, segments, response, downloadFailed, uploaded,
                 metadataWritten, deleted, deleteFailures>>
sizedVars == <<audioBuffers, combinedAudioBuffer, duration>>
cleanVars == <<rawResponse, cleaned, cleanedAgain, cleanPc>>
compileVars == <<promptExchanges, compiledScript, compilePc>>
sseVars == <<sseFrames, sseRead, sseHandled, ssePc>>
generationVars == <<isGenerating, genError, genBody, errorEvents, genPc>>
recordVars == <<recordStatus, handledEvents, recordPc>>
pureVars == <<llmResponse, checkResult, compileScripts, maxTokens, sizedVars,
              cleanVars, compileVars, sseVars, generationVars, recordVars>>
otherVars == <<clientVars, thinkVars, audioVars, wavVars, combineVars,
               pureVars>>
vars == <<pipelineVars, otherVars>>

\* ------------------------------------------------------------ event values
Stages == <<"outline", "search", "script", "combining", "finalizing">>

\* the position of a stage in Stages
StageRank(s) ==
  CASE s = "outline" -> 1
    [] s = "search" -> 2
    [] s = "script" -> 3
    [] s = "combining" -> 4
    [] s = "finalizing" -> 5

\* Math.round(num / den) for num >= 0, den > 0 (round half up)
RoundDiv(num, den) == (2 * num + den) \div (2 * den)

\* Math.round(35 + (i / outline.sections.length) * 20)
SearchProgress(i, n) == RoundDiv(35 * n + i * 20, n)

\* Math.round(50 + (i / enrichedOutline.sections.length) * 25)
ScriptProgress(i, n) == RoundDiv(50 * n + i * 25, n)

\* A GenerationProgress.  section: 0 when currentSection is absent, the
\* 1-based section number, or nSections + 1 for "final_thoughts";
\* result: "none" when absent, "empty" for the empty string, else what the
\* payload is.
Progress(stage, progress, section, result, error) ==
  [stage |-> stage, progress |-> progress, section |-> section,
   result |-> result, error |-> error]

\* An emission of the generator: through updateProgress or through yield
Cb(ev) == [src |-> "callback", ev |-> ev]

Yd(ev) == [src |-> "yield", ev |-> ev]

\* An Error: kind is what failed, at the outline attempt or the section it
\* belongs to (0 elsewhere), cause the kind of the error it wraps
Error(kind, at, cause) == [kind |-> kind, at |-> at, cause |-> cause]

NoError == Error("none", 0, "none")

\* A truthy `result`: absent and the empty string are falsy
Truthy(result) == result \notin {"none", "empty"}

\* An upstream call.  idx: the outline attempt or the query index;
\* outcome: "pending" until the call is over, then "ok" or "failed";
\* late: the call was issued although the client had closed the stream
\* before the last stage boundary or section iteration the pipeline reached.
Call(kind, mode, stage, section, idx, late) ==
  [kind |-> kind, mode |-> mode, stage |-> stage, section |-> section,
   idx |-> idx, outcome |-> "pending", late |-> late]

\* the call the generator is waiting for is over ("pending": it is not)
Settle(outcome) ==
  IF outcome = "pending" THEN calls
  ELSE [calls EXCEPT ![Len(calls)].outcome = outcome]

\* ------------------------------------------------ the route: sending events
Sse(type, ev) == [type |-> type, ev |-> ev]

NoProgress == Progress("none", 0, 0, "none", FALSE)

\* controller.enqueue throws once the stream is no longer readable
EnqueueThrows == streamState # "readable"

\* SendEvent without its guard and without its try/catch
SendEvent_Unguarded(st, data) ==
  [ok |-> TRUE, sent |-> Append(st.sent, data), closed |-> st.closed]

\* sendEvent(data) on the route state st = [sent, closed]: the new state and
\* the boolean the function returns
SendEvent(st, data) ==
  IF st.closed \/ isCancelled
    THEN [ok |-> FALSE, sent |-> st.sent, closed |-> st.closed]
    ELSE IF EnqueueThrows
      THEN [ok |-> FALSE, sent |-> st.sent, closed |-> TRUE]
      ELSE [ok |-> TRUE, sent |-> Append(st.sent, data), closed |-> st.closed]

\* IsFinalResult without the test of `result`
IsFinalResult_ProgressOnly(ev) == ev.progress = 100

\* if (progress.progress === 100 && progress.result)
IsFinalResult(ev) == ev.progress = 100 /\ Truthy(ev.result)

\* The body of `for await (const progress of progressIterator)` on the route
\* state st = [sent, closed]: go is FALSE when the body ends in break.
RouteLoopBody(ev, st) ==
  IF st.closed \/ isCancelled
    THEN [go |-> FALSE, sent |-> st.sent, closed |-> st.closed]
    ELSE
      LET p == SendEvent(st, Sse("progress", ev))
      IN IF ~p.ok
           THEN [go |-> FALSE, sent |-> p.sent, closed |-> p.closed]
           ELSE IF IsFinalResult(ev)
             THEN LET c == SendEvent(p, Sse("complete", ev))
                  IN [go |-> c.ok, sent |-> c.sent, closed |-> c.closed]
             ELSE [go |-> TRUE, sent |-> p.sent, closed |-> p.closed]

\* What the consumer of the generator does with a yielded event: the route
\* runs its loop body, a direct caller takes the event and goes on.
Consume(ev, st) ==
  IF driver = "route"
    THEN RouteLoopBody(ev, st)
    ELSE [go |-> TRUE, sent |-> st.sent, closed |-> st.closed]

\* One emission on st = [events, sent, closed, go]: updateProgress hands the
\* event to the callback if there is one; yield hands it to the consumer.
Emit(e, st) ==
  IF e.src = "callback"
    THEN IF hasCallback THEN [st EXCEPT !.events = Append(@, e)] ELSE st
    ELSE LET h == Consume(e.ev, st)
         IN [events |-> Append(st.events, e), sent |-> h.sent,
             closed |-> h.closed, go |-> h.go]

\* The emissions of one stretch of code, in order; after a break of the
\* consumer the generator is closed by return() and emits nothing more.
RECURSIVE Run(_, _)
Run(ems, st) ==
  IF ems = <<>> \/ ~st.go THEN st ELSE Run(Tail(ems), Emit(Head(ems), st))

\* closeController() on the route state st = [sent, closed]: the state with
\* the stream and the number of controller.close() calls
CloseController(st) ==
  [sent |-> st.sent, closed |-> TRUE,
   closeCalls |-> IF st.closed THEN closeCalls ELSE closeCalls + 1,
   streamState |-> IF ~st.closed /\ streamState = "readable" THEN "closed"
                   ELSE streamState]

\* DoneEvent of a route that ends a run with one more progress event
DoneEvent_Progress == Sse("progress", NoProgress)

\* what the route sends once the loop is left without an exception
DoneEvent == Sse("done", NoProgress)

\* what the route sends from its catch
CatchEvent == Sse("error", NoProgress)

\* The end of start() on the route state st: the event `last` is sent "only
\* if not closed or cancelled", then finally closes the controller
RouteEnd(st, last) ==
  CloseController(IF ~st.closed /\ ~isCancelled THEN SendEvent(st, last)
                  ELSE st)

\* the loop is left, by break or because the generator returned
RouteAfterLoop(st) == RouteEnd(st, DoneEvent)

\* the generator threw: catch (error)
RouteCatch(st) == RouteEnd(st, CatchEvent)

\* how a stretch of code of the generator ends
AwaitCall(at, call) == [pc |-> at, calls |-> <<call>>]

Wait(at) == [pc |-> at, calls |-> <<>>]

Return == [pc |-> "done", calls |-> <<>>]

Raise == [pc |-> "threw", calls |-> <<>>]

\* One stretch of code of the generator: after the call it waited for is
\* settled with `outcome` it emits ems and ends as `end` says, unless its
\* consumer breaks.  The route's loop ends when the generator returns and
\* throws when the generator throws; what start() does then belongs to the
\* same stretch.
Stretch(outcome, ems, end) ==
  \E r \in {Run(ems, [events |-> events, sent |-> sent,
                      closed |-> isControllerClosed, go |-> TRUE])} :
    /\ events' = r.events
    /\ pc' = IF r.go THEN end.pc ELSE "returned"
    /\ calls' = IF r.go THEN Settle(outcome) \o end.calls ELSE Settle(outcome)
    /\ IF driver = "route" /\ (~r.go \/ end.pc \in {"done", "threw"})
         THEN \E f \in {IF r.go /\ end.pc = "threw" THEN RouteCatch(r)
                        ELSE RouteAfterLoop(r)} :
                /\ routePc' = "finished"
                /\ sent' = f.sent
                /\ isControllerClosed' = f.closed
                /\ closeCalls' = f.closeCalls
                /\ streamState' = f.streamState
         ELSE /\ sent' = r.sent
              /\ isControllerClosed' = r.closed
              /\ UNCHANGED <<routePc, closeCalls, streamState>>
    /\ UNCHANGED <<isCancelled, otherVars>>

\* the consumer takes every event of ems without breaking
Went(ems) ==
  Run(ems, [events |-> events, sent |-> sent, closed |-> isControllerClosed,
            go |-> TRUE]).go

\* a stage boundary or the top of a section iteration is reached
ReachedBoundary == passedAfterClose \/ streamState = "cancelled"

\* ErrorEvent with the stage of the first step instead of the last
ErrorEvent_InOutline == Progress("outline", 100, 0, "none", TRUE)

\* catch of generatePodcastScript: the error event
ErrorEvent == Progress("finalizing", 100, 0, "none", TRUE)

\* ------------------------------------------------------- the outline stage
\* What a chat completion can answer to the outline prompt, as far as the
\* checks of generatePodcastOutline tell answers apart.
OutlineResponses ==
  [parses : BOOLEAN, complete : BOOLEAN,
   sections : (MinSections - 1)..MaxSections, placeholders : BOOLEAN]

\* parseJSONFromResponse(response, false) and the checks that follow it:
\* "ok", or the kind of the error thrown
OutlineCheck(resp) ==
  IF ~resp.parses THEN "parse"
  ELSE IF ~resp.complete THEN "structure"
  ELSE IF resp.sections < MinSections THEN "few_sections"
  ELSE IF resp.placeholders THEN "placeholder"
  ELSE "ok"

\* HasNextAttempt of a loop that makes one attempt more
HasNextAttempt_OneMore(a) == a < MaxOutlineAttempts + 1

\* if (attempt < 3): wait and go round the loop again
HasNextAttempt(a) == a < MaxOutlineAttempts

\* progress: 10 + (attempt - 1) * 5
AttemptProgress(a) == 10 + (a - 1) * 5

\* generateSearchQueries calls instructions.toLowerCase(): it throws when no
\* instructions string was passed
QueryGenerationThrows == ~instructionsGiven

\* getTavilyClient throws "TAVILY_API_KEY is not configured" before anything
\* is sent: searchWeb then fails without waiting for the network
SearchUnavailable == ~searchKeySet

\* for (const query of sectionQueries.slice(0, 2)): another query remains
HasNextQuery(q) == q + 1 < QueriesPerSection

\* the event yielded before section i (0-based) of n is written
SectionStartEvent(i, n) ==
  Progress("script", ScriptProgress(i, n), i + 1, "none", FALSE)

\* the streamed chat call of generateSectionScript for section number sec
StreamCall(sec, late) == Call("stream", "none", "script", sec, 0, late)

PipelineInit ==
  /\ driver \in {"route", "direct"}
  /\ hasCallback \in BOOLEAN
  /\ instructionsGiven \in BOOLEAN
  /\ searchKeySet \in BOOLEAN
  \* the route constructs `new PodcastGenerator()` and always passes a string
  /\ driver = "route" => ~hasCallback /\ instructionsGiven
  /\ pc = "start"
  /\ thrown = NoError
  /\ attempt = 0
  /\ lastError = NoError
  /\ nSections = 0
  /\ secIdx = 0
  /\ qIdx = 0
  /\ searchResults = 0
  /\ searchContext = <<>>
  /\ searchFailures = 0
  /\ scripted = <<>>
  /\ finalThoughtsDone = FALSE
  /\ chunks = 0
  /\ delivered = 0
  /\ finalScript = "empty"
  /\ events = <<>>
  /\ calls = <<>>
  /\ routePc = IF driver = "route" THEN "start" ELSE "none"
  /\ isControllerClosed = FALSE
  /\ isCancelled = FALSE
  /\ streamState = "readable"
  /\ closeCalls = 0
  /\ sent = <<>>
  /\ passedAfterClose = FALSE

\* no startGeneration call has been made
ClientInit ==
  /\ activeGenerations = {}
  /\ gen = <<>>
  /\ run = [pc |-> "idle", signedIn |-> FALSE, generationId |-> FALSE,
            onComplete |-> FALSE, body |-> <<>>, handled |-> 0,
            persisted |-> <<>>, completions |-> <<>>,
            requestFailed |-> FALSE, outcome |-> "none"]

\* streamChatCompletion has its reader and has read nothing
ThinkInit ==
  /\ upstream = <<>>
  /\ contentBuffer = <<>>
  /\ yielded = <<>>
  /\ streamEnded = FALSE

\* generate-audio before a request
AudioInit ==
  /\ script = 0
  /\ speakers = <<>>
  /\ mockMode = FALSE
  /\ apiCalls = <<>>
  /\ audioPc = "idle"
  /\ segIdx = 0
  /\ audioSegments = <<>>
  /\ audioSent = <<>>
  /\ audioStream = "readable"
  /\ ttsCalls = <<>>
  /\ outcomes = <<>>

\* no buffer downloaded, combineWavBuffers not called
WavInit ==
  /\ wavBuffers = <<>>
  /\ combined = <<>>
  /\ wavResult = "none"

\* a response of combine-audio: the status and the `error` of its body
Response(status, error) == [status |-> status, error |-> error]

\* combine-audio before a request
CombineInit ==
  /\ combinePc = "idle"
  /\ segments = 0
  /\ response = Response(0, "none")
  /\ downloadFailed = FALSE
  /\ uploaded = 0
  /\ metadataWritten = FALSE
  /\ deleted = 0
  /\ deleteFailures = 0

\* the parts other than the pipeline, at rest
\* no response to check yet
PureInit ==
  /\ llmResponse = [syntax |-> "none", outline |-> "none"]
  /\ checkResult = [op |-> "none", error |-> "none"]
  /\ compileScripts = [called |-> FALSE, sections |-> <<>>,
                       finalThoughts |-> [length |-> 0, blank |-> TRUE]]
  /\ maxTokens = 0
  /\ audioBuffers = <<>>
  /\ combinedAudioBuffer = [header |-> <<>>, dataLength |-> 0, zero |-> TRUE]
  /\ duration = -1
  /\ rawResponse = <<>>
  /\ cleaned = <<>>
  /\ cleanedAgain = <<>>
  /\ cleanPc = "idle"
  /\ promptExchanges = 0
  /\ compiledScript = <<>>
  /\ compilePc = "idle"
  /\ sseFrames = 0
  /\ sseRead = 0
  /\ sseHandled = <<>>
  /\ ssePc = "idle"
  /\ isGenerating = FALSE
  /\ genError = "none"
  /\ genBody = <<>>
  /\ errorEvents = 0
  /\ genPc = "idle"
  /\ recordStatus = "none"
  /\ handledEvents = <<>>
  /\ recordPc = "idle"

OthersIdle ==
  /\ ClientInit
  /\ ThinkInit
  /\ AudioInit
  /\ WavInit
  /\ CombineInit
  /\ PureInit

\* the pipeline at rest, before a request of the route
PipelineIdle == PipelineInit /\ driver = "route" /\ searchKeySet

Init == PipelineInit /\ OthersIdle

\* The code up to the chat call of the first outline attempt.  For the
\* route: start() sends its first event and begins to iterate the generator.
Start ==
  /\ pc = "start"
  /\ attempt' = 1
  /\ pc' = "outline_structured"
  /\ events' = Run(<<Cb(Progress("outline", 10, 0, "none", FALSE)),
                     Cb(Progress("outline", AttemptProgress(1), 0, "none",
                                 FALSE))>>,
                   [events |-> events, go |-> TRUE]).events
  /\ calls' = Append(calls,
                Call("chat", "structured", "outline", 0, 1, passedAfterClose))
  /\ IF driver = "route"
       THEN LET s == SendEvent([sent |-> sent, closed |-> isControllerClosed],
                      Sse("progress", Progress("outline", 0, 0, "none", FALSE)))
            IN /\ s.ok
               /\ sent' = s.sent
               /\ routePc' = "loop"
       ELSE UNCHANGED <<sent, routePc>>
  /\ UNCHANGED <<cfgVars, thrown, lastError, nSections, secIdx, researchVars,
                 scriptVars, finalScript, isControllerClosed, streamVars,
                 passedAfterClose, otherVars>>

\* catch (error) of an attempt: remember the error; wait if attempts remain,
\* else report the failure and throw, which the catch of
\* generatePodcastScript turns into the error event
AttemptFailed(kind, outcome) ==
  /\ lastError' = Error(kind, attempt, "none")
  /\ IF HasNextAttempt(attempt)
       THEN /\ Stretch(outcome, <<>>, Wait("outline_backoff"))
            /\ UNCHANGED thrown
       ELSE /\ Stretch(outcome,
                       <<Cb(Progress("outline", 30, 0, "none", TRUE)),
                         Yd(ErrorEvent)>>, Raise)
            /\ thrown' = Error("outline_failed", attempt, kind)
  /\ UNCHANGED <<cfgVars, attempt, nSections, secIdx, researchVars,
                 scriptVars, finalScript, passedAfterClose>>

\* what follows the research stage: its closing event, then the script loop
\* up to the streamed call of its first section
EnterScript(n) ==
  <<Yd(Progress("search", 50, 0, "none", FALSE)), Yd(SectionStartEvent(0, n))>>

\* the research loop when no search can be made: every section is reported
\* and gets an empty searchContext
UnavailableEvents(n) ==
  [i \in 1..n |-> Cb(Progress("search", SearchProgress(i - 1, n), i, "none",
                              FALSE))]
  \o <<Cb(Progress("search", 55, 0, "none", FALSE))>>

\* the sections of the outline enrichWithWebSearch returns when no search can
\* be made: searchWeb throws "TAVILY_API_KEY is not configured" before it
\* reaches the service, the inner catch logs it, and every section is pushed
\* with the results gathered for it, none
NoResultsAttached_NoField(n) == <<>>

NoResultsAttached(n) == [i \in 1..n |-> 0]

\* A good outline is returned and yielded; enrichWithWebSearch runs up to
\* its first search.  When query generation throws, its catch returns the
\* outline as it is, and when no search can be made the loop runs through:
\* in both cases the script loop is entered.
OutlineAccepted(n, outcome) ==
  LET head == <<Cb(Progress("outline", 30, 0, "none", FALSE)),
                Yd(Progress("outline", 25, 0, "outline", FALSE)),
                Cb(Progress("search", 35, 0, "none", FALSE))>>
      ems == IF QueryGenerationThrows
               THEN head \o <<Cb(Progress("search", 55, 0, "none", TRUE))>>
                         \o EnterScript(n)
             ELSE IF SearchUnavailable
               THEN head \o UnavailableEvents(n) \o EnterScript(n)
             ELSE head \o <<Cb(Progress("search", SearchProgress(0, n), 1,
                                        "none", FALSE))>>
      late == IF Went(ems) THEN ReachedBoundary ELSE passedAfterClose
  IN /\ nSections' = n
     /\ lastError' = NoError
     /\ secIdx' = 0
     /\ passedAfterClose' = late
     /\ searchContext' = IF ~QueryGenerationThrows /\ SearchUnavailable
                              /\ Went(head)
                           THEN NoResultsAttached(n) ELSE searchContext
     /\ Stretch(outcome, ems,
                IF QueryGenerationThrows \/ SearchUnavailable
                  THEN AwaitCall("stream", StreamCall(1, late))
                  ELSE AwaitCall("search",
                                 Call("search", "none", "search", 1, 0, late)))
     /\ UNCHANGED <<cfgVars, thrown, attempt, qIdx, searchResults,
                    searchFailures, scriptVars, finalScript>>

\* The response of an attempt is parsed and checked
ProcessOutline(resp) ==
  IF OutlineCheck(resp) = "ok"
    THEN OutlineAccepted(resp.sections, "ok")
    ELSE AttemptFailed(OutlineCheck(resp), "ok")

OutlineStructuredReturns ==
  /\ pc = "outline_structured"
  /\ \E resp \in OutlineResponses : ProcessOutline(resp)

\* the call made in catch (structuredError): the same prompts without
\* responseFormat
FallbackCall_Structured(a, late) ==
  Call("chat", "structured", "outline", 0, a, late)

FallbackCall(a, late) == Call("chat", "plain", "outline", 0, a, late)

\* catch (structuredError): the plain-prompt call of the same attempt
OutlineStructuredFails ==
  /\ pc = "outline_structured"
  /\ Stretch("failed", <<>>,
             AwaitCall("outline_plain",
                       FallbackCall(attempt, passedAfterClose)))
  /\ UNCHANGED <<cfgVars, thrown, outlineVars, secIdx, researchVars,
                 scriptVars, finalScript, passedAfterClose>>

OutlinePlainReturns ==
  /\ pc = "outline_plain"
  /\ \E resp \in OutlineResponses : ProcessOutline(resp)

OutlinePlainFails ==
  /\ pc = "outline_plain"
  /\ AttemptFailed("transport", "failed")

\* the 1-second wait is over: the next attempt, up to its chat call
OutlineBackoffElapsed ==
  /\ pc = "outline_backoff"
  /\ attempt' = attempt + 1
  /\ Stretch("pending",
             <<Cb(Progress("outline", AttemptProgress(attempt + 1), 0, "none",
                           FALSE))>>,
             AwaitCall("outline_structured",
                       Call("chat", "structured", "outline", 0, attempt + 1,
                            passedAfterClose)))
  /\ UNCHANGED <<cfgVars, thrown, lastError, nSections, secIdx, researchVars,
                 scriptVars, finalScript, passedAfterClose>>

\* ------------------------------------------------------ the research stage
\* A searchWeb call is over, with a result (found) or with an error that the
\* inner catch logs: the next query, the next section, or the end of the
\* stage and the script loop up to its first streamed call
SearchDone(found) ==
  LET got == IF found THEN searchResults + 1 ELSE searchResults
      outcome == IF found THEN "ok" ELSE "failed"
  IN /\ pc = "search"
     /\ found \/ searchFailures < MaxSearchFailures
     /\ searchFailures' = IF found THEN searchFailures ELSE searchFailures + 1
     /\ IF HasNextQuery(qIdx)
          THEN /\ qIdx' = qIdx + 1
               /\ searchResults' = got
               /\ Stretch(outcome, <<>>,
                          AwaitCall("search",
                                    Call("search", "none", "search",
                                         secIdx + 1, qIdx + 1,
                                         passedAfterClose)))
               /\ UNCHANGED <<secIdx, searchContext, passedAfterClose>>
          ELSE /\ searchContext' = Append(searchContext, got)
               /\ qIdx' = 0
               /\ searchResults' = 0
               /\ IF secIdx + 1 < nSections
                    THEN /\ secIdx' = secIdx + 1
                         /\ passedAfterClose' = ReachedBoundary
                         /\ Stretch(outcome,
                              <<Cb(Progress("search",
                                     SearchProgress(secIdx + 1, nSections),
                                     secIdx + 2, "none", FALSE))>>,
                              AwaitCall("search",
                                        Call("search", "none", "search",
                                             secIdx + 2, 0, ReachedBoundary)))
                    ELSE LET ems == <<Cb(Progress("search", 55, 0, "none",
                                                  FALSE))>>
                                    \o EnterScript(nSections)
                             late == IF Went(ems) THEN ReachedBoundary
                                     ELSE passedAfterClose
                         IN /\ secIdx' = 0
                            /\ passedAfterClose' = late
                            /\ Stretch(outcome, ems,
                                       AwaitCall("stream", StreamCall(1, late)))
     /\ UNCHANGED <<cfgVars, thrown, outlineVars, scriptVars, finalScript>>

\* SearchFails without the inner catch: the error of the search reaches the
\* catch of generatePodcastScript
SearchFails_Raises ==
  /\ pc = "search"
  /\ thrown' = Error("search", secIdx + 1, "transport")
  /\ Stretch("failed", <<Yd(ErrorEvent)>>, Raise)
  /\ UNCHANGED <<cfgVars, outlineVars, secIdx, researchVars, scriptVars,
                 finalScript, passedAfterClose>>

SearchReturns == SearchDone(TRUE)

SearchFails == SearchDone(FALSE)

\* -------------------------------------------------------- the script stage
\* for await (const chunk of stream): onProgress(fullScript); section is the
\* currentSection of the event
Delta(at, progress, section) ==
  /\ pc = at
  /\ delivered < MaxChunks
  /\ chunks' = chunks + 1
  /\ delivered' = delivered + 1
  /\ Stretch("pending",
             <<Cb(Progress("script", progress, section, "partial", FALSE))>>,
             Wait(at))
  /\ UNCHANGED <<cfgVars, thrown, outlineVars, secIdx, researchVars, scripted,
                 finalThoughtsDone, finalScript, passedAfterClose>>

StreamDelta ==
  Delta("stream", ScriptProgress(secIdx, nSections), secIdx + 1)

\* the text of a script made of k deltas
ScriptText(k) == IF k = 0 THEN "empty" ELSE "script"

\* sectionsWithScripts.push({...section, script}): a list that keeps only
\* the section drafted last
WithScript_Replaces(list, text) == <<text>>

\* sectionsWithScripts.push({...section, script})
WithScript(list, text) == Append(list, text)

\* The stream of a section ends: the section gets its script, the event that
\* says so is yielded, then the event of the next section or of the final
\* thoughts, up to the streamed call
StreamEnds ==
  LET more == secIdx + 1 < nSections
      ems == <<Yd(Progress("script", ScriptProgress(secIdx + 1, nSections),
                           secIdx + 1, ScriptText(chunks), FALSE)),
               IF more THEN Yd(SectionStartEvent(secIdx + 1, nSections))
               ELSE Yd(Progress("script", 75, 0, "none", FALSE))>>
      late == IF Went(ems) THEN ReachedBoundary ELSE passedAfterClose
  IN /\ pc = "stream"
     /\ scripted' = WithScript(scripted, ScriptText(chunks))
     /\ chunks' = 0
     /\ secIdx' = IF more /\ Went(ems) THEN secIdx + 1 ELSE secIdx
     /\ passedAfterClose' = late
     /\ Stretch("ok", ems,
                IF more THEN AwaitCall("stream", StreamCall(secIdx + 2, late))
                ELSE AwaitCall("stream_final",
                               StreamCall(nSections + 1, late)))
     /\ UNCHANGED <<cfgVars, thrown, outlineVars, researchVars,
                    finalThoughtsDone, delivered, finalScript>>

\* A streamed call fails, at once or between two deltas: nothing catches the
\* error before the catch of generatePodcastScript
DraftFails(at, section) ==
  /\ pc = at
  /\ thrown' = Error("draft", section, "transport")
  /\ Stretch("failed", <<Yd(ErrorEvent)>>, Raise)
  /\ UNCHANGED <<cfgVars, outlineVars, secIdx, researchVars, scriptVars,
                 finalScript, passedAfterClose>>

\* StreamFails of a loop that drafts the section again
StreamFails_Retries ==
  /\ pc = "stream"
  /\ Stretch("failed", <<>>,
             AwaitCall("stream", StreamCall(secIdx + 1, passedAfterClose)))
  /\ UNCHANGED <<cfgVars, thrown, outlineVars, secIdx, researchVars,
                 scriptVars, finalScript, passedAfterClose>>

StreamFails == DraftFails("stream", secIdx + 1)

FinalDelta == Delta("stream_final", 75, nSections + 1)

\* The stream of the final thoughts ends: "Combining all sections together",
\* "Starting final script compilation...", then createFinalScript up to its
\* structured-output call
FinalEnds ==
  LET ems == <<Yd(Progress("combining", 85, 0, "none", FALSE)),
               Yd(Progress("finalizing", 87, 0, "none", FALSE)),
               Yd(Progress("finalizing", 88, 0, "none", FALSE)),
               Yd(Progress("finalizing", 90, 0, "none", FALSE)),
               Yd(Progress("finalizing", 92, 0, "none", FALSE))>>
      late == IF Went(ems) THEN ReachedBoundary ELSE passedAfterClose
  IN /\ pc = "stream_final"
     /\ finalThoughtsDone' = TRUE
     /\ chunks' = 0
     /\ passedAfterClose' = late
     /\ Stretch("ok", ems,
                AwaitCall("compile_structured",
                          Call("chat", "structured", "compile", 0, 0, late)))
     /\ UNCHANGED <<cfgVars, thrown, outlineVars, secIdx, researchVars,
                    scripted, delivered, finalScript>>

FinalFails == DraftFails("stream_final", nSections + 1)

\* --------------------------------------------------- the compilation stage
\* what a chat completion can answer to the compilation prompt, as far as
\* parseJSONFromResponse tells answers apart
CompileResponses == {"json", "garbage"}

\* parseJSONFromResponse(finalResponse) throws on text that is no JSON
ParseThrows(resp) == resp # "json"

\* the events createFinalScript yields once it has an answer that parses
ParsedEvents ==
  <<Progress("finalizing", 96, 0, "none", FALSE),
    Progress("finalizing", 98, 0, "none", FALSE),
    Progress("finalizing", 99, 0, "final", FALSE)>>

\* finalScript = progress.result || finalScript, over the events evs
RECURSIVE LastResult(_, _)
LastResult(evs, init) ==
  IF evs = <<>> THEN init
  ELSE LastResult(Tail(evs),
                  IF Truthy(Head(evs).result) THEN Head(evs).result ELSE init)

\* A compilation call returns: "... Validating output...", "Parsing and
\* validating...", then either the parse error, or "Final script ready!"
\* with the compiled script, the last event of generatePodcastScript with
\* the script it kept, and its return.  The answer is parsed only if the
\* consumer took the two events before.
Compiled(at) ==
  \E resp \in CompileResponses :
    LET before == <<Yd(ParsedEvents[1]), Yd(ParsedEvents[2])>>
        kept == LastResult(ParsedEvents, finalScript)
    IN /\ pc = at
       /\ IF ParseThrows(resp)
            THEN /\ thrown' = IF Went(before)
                                THEN Error("compile_parse", 0, "none")
                                ELSE thrown
                 /\ Stretch("ok", before \o <<Yd(ErrorEvent)>>, Raise)
                 /\ UNCHANGED finalScript
            ELSE /\ finalScript' = IF Went(before) THEN kept ELSE finalScript
                 /\ Stretch("ok",
                       before \o <<Yd(ParsedEvents[3]),
                                   Yd(Progress("finalizing", 100, 0, kept,
                                               FALSE))>>,
                       Return)
                 /\ UNCHANGED thrown
       /\ UNCHANGED <<cfgVars, outlineVars, secIdx, researchVars, scriptVars,
                      passedAfterClose>>

CompileStructuredReturns == Compiled("compile_structured")

\* catch of the structured call: "... using fallback prompting...", then the
\* plain-prompt call
CompileStructuredFails ==
  /\ pc = "compile_structured"
  /\ Stretch("failed", <<Yd(Progress("finalizing", 94, 0, "none", FALSE))>>,
             AwaitCall("compile_plain",
                       Call("chat", "plain", "compile", 0, 0,
                            passedAfterClose)))
  /\ UNCHANGED <<cfgVars, thrown, outlineVars, secIdx, researchVars,
                 scriptVars, finalScript, passedAfterClose>>

CompilePlainReturns == Compiled("compile_plain")

\* CompilePlainFails of a fallback that makes the plain-prompt call again
CompilePlainFails_Retries ==
  /\ pc = "compile_plain"
  /\ Stretch("failed", <<>>,
             AwaitCall("compile_plain",
                       Call("chat", "plain", "compile", 0, 0,
                            passedAfterClose)))
  /\ UNCHANGED <<cfgVars, thrown, outlineVars, secIdx, researchVars,
                 scriptVars, finalScript, passedAfterClose>>

\* the plain-prompt call fails inside the catch: the error leaves
\* createFinalScript
CompilePlainFails ==
  /\ pc = "compile_plain"
  /\ thrown' = Error("compile_call", 0, "transport")
  /\ Stretch("failed", <<Yd(ErrorEvent)>>, Raise)
  /\ UNCHANGED <<cfgVars, outlineVars, secIdx, researchVars, scriptVars,
                 finalScript, passedAfterClose>>

\* the generator is waiting for the network or for the retry timer
Awaiting ==
  pc \in {"outline_structured", "outline_plain", "outline_backoff", "search",
          "stream", "stream_final", "compile_structured", "compile_plain"}

\* The client closes the connection: the stream is cancelled; cancel() only
\* logs
ClientClose ==
  /\ driver = "route"
  /\ routePc = "loop"
  /\ Awaiting
  /\ streamState = "readable"
  /\ streamState' = "cancelled"
  /\ UNCHANGED <<cfgVars, genVars, events, calls, routePc,
                 isControllerClosed, isCancelled, closeCalls, sent,
                 passedAfterClose, otherVars>>

Next ==
  \/ Start
  \/ OutlineStructuredReturns
  \/ OutlineStructuredFails
  \/ OutlinePlainReturns
  \/ OutlinePlainFails
  \/ OutlineBackoffElapsed
  \/ SearchReturns
  \/ SearchFails
  \/ StreamDelta
  \/ StreamEnds
  \/ StreamFails
  \/ FinalDelta
  \/ FinalEnds
  \/ FinalFails
  \/ CompileStructuredReturns
  \/ CompileStructuredFails
  \/ CompilePlainReturns
  \/ CompilePlainFails
  \/ ClientClose

Spec == Init /\ [][Next]_vars

\* The generate-podcast route: start() iterates the generator
InitRoute == Init /\ driver = "route"

SpecRoute == InitRoute /\ [][Next]_vars

\* A caller that iterates generatePodcastScript itself: there is no stream
\* and no client to close it
InitDirect == Init /\ driver = "direct"

NextDirect ==
  \/ Start
  \/ OutlineStructuredReturns
  \/ OutlineStructuredFails
  \/ OutlinePlainReturns
  \/ OutlinePlainFails
  \/ OutlineBackoffElapsed
  \/ SearchReturns
  \/ SearchFails
  \/ StreamDelta
  \/ StreamEnds
  \/ StreamFails
  \/ FinalDelta
  \/ FinalEnds
  \/ FinalFails
  \/ CompileStructuredReturns
  \/ CompileStructuredFails
  \/ CompilePlainReturns
  \/ CompilePlainFails

SpecDirect == InitDirect /\ [][NextDirect]_vars

\* ------------------------------------- the client: startGeneration and its key
\* who is signed in: nobody, or a user with a uid
Users == {"anonymous", "u1"}

\* content.substring(0, 100) of the contents a call can be made with
ContentPrefixes == {"a", "b"}

\* user ? `${user.uid}-${content.substring(0, 100)}`
\*      : `anonymous-${content.substring(0, 100)}`
GenerationKey(user, prefix) == <<user, prefix>>

\* KeyHeld of a guard that never finds the key
KeyHeld_Never(key) == FALSE

\* activeGenerations.has(generationKey)
KeyHeld(key) == key \in activeGenerations

\* A startGeneration call.  generationId: the call has an id of a record;
\* created: records it created; requests: POSTs to /api/generate-podcast it
\* issued; deletes: its activeGenerations.delete calls
GenCall(key, user, at, generationId, requests) ==
  [key |-> key, user |-> user, pc |-> at, generationId |-> generationId,
   created |-> 0, requests |-> requests, deletes |-> 0]

\* the call is between its activeGenerations.add and its finally
Running(c) ==
  gen[c].pc \in {"resetting", "creating", "fetching", "reading", "reporting"}

\* startGeneration is called: the guard, the add and the code up to the
\* first await, which is the reset of an existing record, the creation of a
\* record, or for an anonymous user the request itself
StartGeneration ==
  \E user \in Users, prefix \in ContentPrefixes, existing \in BOOLEAN :
    LET key == GenerationKey(user, prefix)
        signedIn == user # "anonymous"
    IN /\ Len(gen) < MaxStartCalls
       /\ IF KeyHeld(key)
            THEN /\ gen' = Append(gen, GenCall(key, user, "skipped", FALSE, 0))
                 /\ UNCHANGED activeGenerations
            ELSE /\ activeGenerations' = activeGenerations \cup {key}
                 /\ gen' = Append(gen,
                      IF existing /\ signedIn
                        THEN GenCall(key, user, "resetting", TRUE, 0)
                      ELSE IF existing
                        THEN GenCall(key, user, "fetching", TRUE, 1)
                      ELSE IF signedIn
                        THEN GenCall(key, user, "creating", FALSE, 0)
                      ELSE GenCall(key, user, "fetching", FALSE, 1))
       /\ UNCHANGED <<run, pipelineVars, pureVars, thinkVars, audioVars, wavVars, combineVars>>

\* setState, new AbortController, fetch("/api/generate-podcast", ...)
IssueRequest(c, generationId, created) ==
  /\ gen' = [gen EXCEPT ![c].pc = "fetching", ![c].generationId = generationId,
                        ![c].created = created, ![c].requests = @ + 1]
  /\ UNCHANGED <<activeGenerations, run, pipelineVars, pureVars, thinkVars, audioVars, wavVars, combineVars>>

\* updateGenerationProgress of the reset is over; its failure is only logged
ResetDone ==
  \E c \in 1..Len(gen) :
    /\ gen[c].pc = "resetting"
    /\ IssueRequest(c, TRUE, 0)

\* generateTitle and createGeneration are over: the record exists, or the
\* failure is logged and the call goes on without an id
CreateDone ==
  \E c \in 1..Len(gen), ok \in BOOLEAN :
    /\ gen[c].pc = "creating"
    /\ IssueRequest(c, ok, IF ok THEN 1 ELSE 0)

\* finally: activeGenerations.delete(generationKey)
Finally(c) ==
  /\ activeGenerations' = activeGenerations \ {gen[c].key}
  /\ gen' = [gen EXCEPT ![c].pc = "ended", ![c].deletes = @ + 1]
  /\ UNCHANGED <<run, pipelineVars, pureVars, thinkVars, audioVars, wavVars, combineVars>>

\* catch (error): setState, then the error is written to the record if
\* there is one, then finally
Failed(c) ==
  IF gen[c].user # "anonymous" /\ gen[c].generationId
    THEN /\ gen' = [gen EXCEPT ![c].pc = "reporting"]
         /\ UNCHANGED <<activeGenerations, run, pipelineVars, pureVars, thinkVars, audioVars, wavVars, combineVars>>
    ELSE Finally(c)

\* the response arrives: the body is read if it is ok, else an Error is
\* thrown
FetchResponds ==
  \E c \in 1..Len(gen), ok \in BOOLEAN :
    /\ gen[c].pc = "fetching"
    /\ IF ok
         THEN /\ gen' = [gen EXCEPT ![c].pc = "reading"]
              /\ UNCHANGED <<activeGenerations, run, pipelineVars, pureVars, thinkVars, audioVars, wavVars, combineVars>>
         ELSE Failed(c)

\* fetch or reader.read() rejects: the network failed, or stopGeneration
\* aborted the request (AbortError)
RequestRejects ==
  \E c \in 1..Len(gen) :
    /\ gen[c].pc \in {"fetching", "reading"}
    /\ Failed(c)

\* reader.read() reports done: the loop is left
ReadDone ==
  \E c \in 1..Len(gen) :
    /\ gen[c].pc = "reading"
    /\ Finally(c)

\* updateGenerationProgress of the catch is over; its failure is only logged
ReportDone ==
  \E c \in 1..Len(gen) :
    /\ gen[c].pc = "reporting"
    /\ Finally(c)

InitClient == PipelineIdle /\ OthersIdle

NextClient ==
  \/ StartGeneration
  \/ ResetDone
  \/ CreateDone
  \/ FetchResponds
  \/ RequestRejects
  \/ ReadDone
  \/ ReportDone

SpecClient == InitClient /\ [][NextClient]_vars

\* ------------------------- the client: one startGeneration call and its events
\* the types of the events the route writes to the response body
EventTypes == {"progress", "complete", "error", "done"}

\* the bodies a response can deliver: up to MaxEvents events, one per read
Bodies == UNION {[1..n -> EventTypes] : n \in 0..MaxEvents}

\* if (user && generationId): the call writes to the record of the run
Persists(r) == r.signedIn /\ r.generationId

\* a persistence call (createGeneration, updateGenerationProgress,
\* saveGenerationResult) that has settled
Persisted(call, ok) == [call |-> call, ok |-> ok]

\* what follows saveGenerationResult when its try/catch is missing: a failure
\* leaves the handler of the event before onComplete
Completion_AfterSaveOnly(r, saved) ==
  IF r.onComplete /\ saved
    THEN <<[script |-> "final", generationId |-> r.generationId]>>
    ELSE <<>>

\* if (onComplete) onComplete(finalScript, generationId || undefined), after
\* the try/catch around saveGenerationResult
Completion(r, saved) ==
  IF r.onComplete
    THEN <<[script |-> "final", generationId |-> r.generationId]>>
    ELSE <<>>

\* startGeneration is called (the key is free): the code up to the first
\* await, which is the reset of an existing record, the creation of a record,
\* or for an anonymous user the request itself
RunStarts ==
  \E signedIn \in BOOLEAN, existing \in BOOLEAN, onComplete \in BOOLEAN,
     body \in Bodies :
    /\ run.pc = "idle"
    /\ run' = [run EXCEPT
         !.pc = IF existing /\ signedIn THEN "resetting"
                ELSE IF ~existing /\ signedIn THEN "creating"
                ELSE "fetching",
         !.signedIn = signedIn, !.generationId = existing,
         !.onComplete = onComplete, !.body = body]
    /\ UNCHANGED <<activeGenerations, gen, pipelineVars, pureVars, thinkVars, audioVars, wavVars, combineVars>>

\* the persistence call before the request settles; catch: console.error,
\* and the request is issued.  createGeneration gives the id of the record
StartPersistSettles ==
  \E ok \in BOOLEAN :
    /\ run.pc \in {"resetting", "creating"}
    /\ run' = [run EXCEPT
         !.pc = "fetching",
         !.generationId = IF run.pc = "creating" THEN ok ELSE @,
         !.persisted = Append(@, Persisted(IF run.pc = "creating"
                                             THEN "create" ELSE "reset", ok))]
    /\ UNCHANGED <<activeGenerations, gen, pipelineVars, pureVars, thinkVars, audioVars, wavVars, combineVars>>

\* catch (error) of startGeneration: setState, then the error is written to
\* the record if there is one, then finally
RunCatches ==
  run' = [run EXCEPT !.requestFailed = TRUE, !.outcome = "failed",
                     !.pc = IF Persists(run) THEN "reporting" ELSE "ended"]

\* the response arrives: the body is read if it is ok, else an Error is
\* thrown; or fetch rejects
RunFetchSettles ==
  \E ok \in BOOLEAN :
    /\ run.pc = "fetching"
    /\ IF ok THEN run' = [run EXCEPT !.pc = "reading"] ELSE RunCatches
    /\ UNCHANGED <<activeGenerations, gen, pipelineVars, pureVars, thinkVars, audioVars, wavVars, combineVars>>

\* reader.read() gives the next event: its handler up to its persistence
\* call, or to its end when the run writes to no record.  A progress event
\* is written with updateGenerationProgress, a complete event with
\* saveGenerationResult and then handed to onComplete, an error event with
\* updateGenerationProgress; a done event only sets isGenerating
RunReads ==
  /\ run.pc = "reading"
  /\ run.handled < Len(run.body)
  /\ \E type \in {run.body[run.handled + 1]} :
       run' = [run EXCEPT
         !.handled = @ + 1,
         !.pc = IF Persists(run) /\ type # "done" THEN "persisting" ELSE @,
         !.completions = IF ~Persists(run) /\ type = "complete"
                           THEN @ \o Completion(run, TRUE) ELSE @]
  /\ UNCHANGED <<activeGenerations, gen, pipelineVars, pureVars, thinkVars, audioVars, wavVars, combineVars>>

\* the persistence call of an event settles; catch: console.error, and the
\* handler goes on: onComplete for a complete event, then the next line
EventPersistSettles ==
  \E ok \in BOOLEAN :
    /\ run.pc = "persisting"
    /\ \E type \in {run.body[run.handled]} :
         run' = [run EXCEPT
           !.pc = "reading",
           !.persisted = Append(@, Persisted(IF type = "complete"
                                               THEN "result" ELSE type, ok)),
           !.completions = IF type = "complete"
                             THEN @ \o Completion(run, ok) ELSE @]
    /\ UNCHANGED <<activeGenerations, gen, pipelineVars, pureVars, thinkVars, audioVars, wavVars, combineVars>>

\* reader.read() reports done: the loop is left, then finally
RunReadDone ==
  /\ run.pc = "reading"
  /\ run.handled = Len(run.body)
  /\ run' = [run EXCEPT !.pc = "ended", !.outcome = "completed"]
  /\ UNCHANGED <<activeGenerations, gen, pipelineVars, pureVars, thinkVars, audioVars, wavVars, combineVars>>

\* reader.read() rejects: the network failed, or stopGeneration aborted the
\* request
RunReadRejects ==
  /\ run.pc = "reading"
  /\ RunCatches
  /\ UNCHANGED <<activeGenerations, gen, pipelineVars, pureVars, thinkVars, audioVars, wavVars, combineVars>>

\* updateGenerationProgress of the catch settles; its failure is only logged
RunReportSettles ==
  \E ok \in BOOLEAN :
    /\ run.pc = "reporting"
    /\ run' = [run EXCEPT !.pc = "ended",
                          !.persisted = Append(@, Persisted("failure", ok))]
    /\ UNCHANGED <<activeGenerations, gen, pipelineVars, pureVars, thinkVars, audioVars, wavVars, combineVars>>

NextRun ==
  \/ RunStarts
  \/ StartPersistSettles
  \/ RunFetchSettles
  \/ RunReads
  \/ EventPersistSettles
  \/ RunReadDone
  \/ RunReadRejects
  \/ RunReportSettles

InitRun == PipelineIdle /\ OthersIdle

SpecRun == InitRun /\ [][NextRun]_vars

\* ------------------------------- llm.ts: streamChatCompletion and <think>
\* The characters of the upstream content: the brackets and the slash that
\* make up the tags, " " for white space and "x" for any other character.
\* The name inside the tags is left out: "<>" is the open tag <think>,
\* "</>" the close tag </think>.
ThinkAlphabet == {"<", "/", ">", "x", " "}

OpenTag == <<"<", ">">>

CloseTag == <<"<", "/", ">">>

\* delta.content of one chunk: a non-empty string
Deltas == UNION {[1..n -> ThinkAlphabet] : n \in 1..MaxDeltaLen}

\* A string is held as the sequence of the positions its characters have in
\* txt, the upstream content.  tag occurs in the string buf at index i:
TagAt(txt, buf, i, tag) ==
  /\ i >= 1
  /\ i + Len(tag) - 1 <= Len(buf)
  /\ \A k \in 1..Len(tag) : txt[buf[i + k - 1]] = tag[k]

\* buf.indexOf(tag, from), 1-based; 0 when there is none
IndexOfFrom(txt, buf, tag, from) ==
  LET found == {i \in from..Len(buf) : TagAt(txt, buf, i, tag)}
  IN IF found = {} THEN 0 ELSE CHOOSE i \in found : \A j \in found : i <= j

\* buf.lastIndexOf(tag), 1-based; 0 when there is none
LastIndexOf(txt, buf, tag) ==
  LET found == {i \in 1..Len(buf) : TagAt(txt, buf, i, tag)}
  IN IF found = {} THEN 0 ELSE CHOOSE i \in found : \A j \in found : i >= j

\* while ((match = thinkRegex.exec(contentBuffer)) !== null), from the
\* index `from` on with `clean` collected so far: cleanContent and lastIndex
\* after the loop.  /<think>[\s\S]*?<\/think>/g matches from the leftmost
\* open tag that has a close tag after it to the first such close tag.
RECURSIVE ThinkMatches(_, _, _, _)
ThinkMatches(txt, buf, from, clean) ==
  LET open == IndexOfFrom(txt, buf, OpenTag, from)
      close == IF open = 0 THEN 0
               ELSE IndexOfFrom(txt, buf, CloseTag, open + Len(OpenTag))
  IN IF close = 0 THEN [clean |-> clean, lastIndex |-> from]
     ELSE ThinkMatches(txt, buf, close + Len(CloseTag),
                       clean \o SubSeq(buf, from, open - 1))

\* The body of `if (content)` for the buffer buf, which already holds the
\* new delta: the cleanContent and the contentBuffer it leaves
FilterDelta(txt, buf) ==
  LET m == ThinkMatches(txt, buf, 1, <<>>)
      incompleteThinkStart == LastIndexOf(txt, buf, OpenTag)
      incompleteThinkEnd == LastIndexOf(txt, buf, CloseTag)
  IN IF incompleteThinkStart > incompleteThinkEnd
       THEN [clean |-> m.clean
                       \o SubSeq(buf, m.lastIndex, incompleteThinkStart - 1),
             buffer |-> SubSeq(buf, incompleteThinkStart, Len(buf))]
       ELSE [clean |-> m.clean \o SubSeq(buf, m.lastIndex, Len(buf)),
             buffer |-> <<>>]

\* contentBuffer.replace(/<think>[\s\S]*?<\/think>/g, "")
FinalClean(txt, buf) ==
  LET m == ThinkMatches(txt, buf, 1, <<>>)
  IN m.clean \o SubSeq(buf, m.lastIndex, Len(buf))

\* str.trim() is not the empty string
NonBlank(txt, str) == \E k \in 1..Len(str) : txt[str[k]] # " "

\* if (cleanContent.trim()) yield cleanContent
YieldIfAny(txt, clean) ==
  IF NonBlank(txt, clean) THEN Append(yielded, clean) ELSE yielded

\* A data line with a delta is read
ReceiveDelta ==
  \E delta \in Deltas :
    /\ ~streamEnded
    /\ Len(upstream) + Len(delta) <= MaxStreamLen
    /\ \E r \in {FilterDelta(upstream \o delta,
                             contentBuffer
                               \o [k \in 1..Len(delta) |-> Len(upstream) + k])} :
         /\ upstream' = upstream \o delta
         /\ contentBuffer' = r.buffer
         /\ yielded' = YieldIfAny(upstream \o delta, r.clean)
    /\ UNCHANGED <<streamEnded, pipelineVars, pureVars, clientVars, audioVars, wavVars, combineVars>>

\* The line "data: [DONE]" is read: what is left in the buffer is cleaned
\* and yielded, and the generator returns
ReceiveDone ==
  /\ ~streamEnded
  /\ streamEnded' = TRUE
  /\ yielded' = IF NonBlank(upstream, contentBuffer)
                  THEN YieldIfAny(upstream,
                                  FinalClean(upstream, contentBuffer))
                  ELSE yielded
  /\ UNCHANGED <<upstream, contentBuffer, pipelineVars, pureVars, clientVars, audioVars, wavVars, combineVars>>

\* reader.read() reports done although no "data: [DONE]" line was read: the
\* while loop breaks and the generator returns; the buffer is not looked at
StreamCloses ==
  /\ ~streamEnded
  /\ streamEnded' = TRUE
  /\ UNCHANGED <<upstream, contentBuffer, yielded, pipelineVars, pureVars, clientVars, audioVars, wavVars, combineVars>>

InitThink == PipelineIdle /\ OthersIdle

NextThink ==
  \/ ReceiveDelta
  \/ ReceiveDone
  \/ StreamCloses

SpecThink == InitThink /\ [][NextThink]_vars

\* ------------------------------------------- generate-audio: POST, start()
\* An event of the generate-audio stream: segmentIndex is the script index
\* for segment_complete and segment_error, currentSegment for progress;
\* `segments` and `successful` are audioSegments and successfulSegments of
\* the complete event
AudioEvent(type, segmentIndex, list, successful) ==
  [type |-> type, segmentIndex |-> segmentIndex, segments |-> list,
   successful |-> successful]

\* the speakers a line of a script can name
Speakers == {"Hanna", "Abram", "Narrator"}

\* OPENAI_VOICES[speaker as keyof typeof OPENAI_VOICES]
Voice(speaker) ==
  CASE speaker = "Hanna" -> "nova"
    [] speaker = "Abram" -> "onyx"
    [] OTHER -> "undefined"

\* generateAudioSegment reaches openai.audio.speech.create: it has a voice
\* for the speaker and does not run in mock mode
CallsSpeechApi(speaker, mock) == Voice(speaker) # "undefined" /\ ~mock

\* The rest of start() from the head of the segment loop over n segments
\* with i and audioSegments = segs, after the events evs were sent, as long as the
\* stream takes events: the progress event of segment i and the call of
\* generateAudioSegment, or after the last segment the complete event and
\* controller.close()
LoopHead(n, i, segs, evs) ==
  IF i < n
    THEN /\ audioSent' = audioSent \o evs
                           \o <<AudioEvent("progress", i + 1, <<>>, 0)>>
         /\ ttsCalls' = Append(ttsCalls, i)
         /\ apiCalls' = IF CallsSpeechApi(speakers'[i + 1], mockMode')
                           THEN Append(apiCalls, i) ELSE apiCalls
         /\ audioPc' = "tts"
         /\ audioStream' = audioStream
    ELSE /\ audioSent' = audioSent \o evs
                           \o <<AudioEvent("complete", 0, segs, Len(segs))>>
         /\ ttsCalls' = ttsCalls
         /\ apiCalls' = apiCalls
         /\ audioPc' = "finished"
         /\ audioStream' = "closed"

\* sendEvent has no guard: on a stream the client cancelled
\* controller.enqueue throws, in the catch of the segment and in the outer
\* catch again, then controller.close() throws in the finally and start()
\* rejects
StartRejects ==
  /\ audioPc' = "rejected"
  /\ UNCHANGED <<audioSent, ttsCalls, apiCalls, audioStream>>

\* The code from one wait of start() to the next: the events evs, then the
\* loop head
AudioStretch(n, i, segs, evs) ==
  /\ segIdx' = i
  /\ audioSegments' = segs
  /\ IF audioStream = "readable" THEN LoopHead(n, i, segs, evs)
     ELSE StartRejects

\* POST with a script of n segments, each naming its speaker: the stream is
\* made, start() sends "Starting OpenAI TTS audio generation..." and enters
\* the loop.  MOCK_MODE is read from the environment
AudioPost ==
  \E n \in 0..MaxSegments, mock \in BOOLEAN :
    /\ audioPc = "idle"
    /\ script' = n
    /\ mockMode' = mock
    /\ \E named \in [1..n -> Speakers] : speakers' = named
    /\ AudioStretch(n, 0, <<>>, <<AudioEvent("progress", 0, <<>>, 0)>>)
    /\ UNCHANGED <<outcomes, pipelineVars, pureVars, clientVars, thinkVars, wavVars, combineVars>>

\* generateAudioSegment returns the buffer, which takes a voice for the
\* speaker: uploadAudioToStorage is called
TtsReturns ==
  /\ audioPc = "tts"
  /\ Voice(speakers[segIdx + 1]) # "undefined"
  /\ audioPc' = "upload"
  /\ UNCHANGED <<script, speakers, mockMode, segIdx, audioSegments, audioSent, audioStream,
                 ttsCalls, apiCalls, outcomes, pipelineVars, pureVars, clientVars, thinkVars, wavVars, combineVars>>

\* uploadAudioToStorage returns the URL: the segment is pushed and its
\* segment_complete event sent
UploadReturns ==
  /\ audioPc = "upload"
  /\ outcomes' = Append(outcomes, "ok")
  /\ UNCHANGED <<script, speakers, mockMode, pipelineVars, pureVars, clientVars, thinkVars, wavVars, combineVars>>
  /\ AudioStretch(script, segIdx + 1, Append(audioSegments, segIdx),
                  <<AudioEvent("segment_complete", segIdx, <<>>, 0)>>)

\* SegmentFails of a loop without the catch of the segment: the outer catch
\* sends the error event and the stream is closed
SegmentFails_Aborts ==
  \E at \in {"tts", "upload"} :
    /\ audioPc = at
    /\ outcomes' = Append(outcomes, at)
    /\ audioSent' = Append(audioSent, AudioEvent("error", 0, <<>>, 0))
    /\ audioPc' = "finished"
    /\ audioStream' = IF audioStream = "readable" THEN "closed"
                      ELSE audioStream
    /\ UNCHANGED <<script, speakers, mockMode, segIdx, audioSegments, ttsCalls, apiCalls, pipelineVars, pureVars,
                   clientVars, thinkVars, wavVars, combineVars>>

\* generateAudioSegment or uploadAudioToStorage throws: the catch of the
\* segment sends segment_error and the loop goes on.  generateAudioSegment
\* throws "No voice configured for speaker" before anything else, and in
\* mock mode nothing else can fail in it
SegmentFails ==
  \E at \in {"tts", "upload"} :
    /\ audioPc = at
    /\ at = "tts" => ~(mockMode /\ Voice(speakers[segIdx + 1]) # "undefined")
    /\ outcomes' = Append(outcomes, at)
    /\ UNCHANGED <<script, speakers, mockMode, pipelineVars, pureVars, clientVars, thinkVars, wavVars, combineVars>>
    /\ AudioStretch(script, segIdx + 1, audioSegments,
                    <<AudioEvent("segment_error", segIdx, <<>>, 0)>>)

\* The client of the generate-audio stream goes away during a wait
AudioClientCancel ==
  /\ audioPc \in {"tts", "upload"}
  /\ audioStream = "readable"
  /\ audioStream' = "cancelled"
  /\ UNCHANGED <<script, speakers, mockMode, audioPc, segIdx, audioSegments, audioSent, ttsCalls,
                 apiCalls, outcomes, pipelineVars, pureVars, clientVars, thinkVars, wavVars, combineVars>>

InitAudio == PipelineIdle /\ OthersIdle

NextAudio ==
  \/ AudioPost
  \/ TtsReturns
  \/ UploadReturns
  \/ SegmentFails
  \/ AudioClientCancel

SpecAudio == InitAudio /\ [][NextAudio]_vars

\* ------------------------------------------ part_005: combineWavBuffers
\* A Buffer is the sequence of its bytes; offsets are 0-based as in the code.
\* buffer.writeUInt32LE(v) and buffer.writeUInt16LE(v): the bytes written
UInt32LE(v) ==
  <<v % 256, (v \div 256) % 256, (v \div 65536) % 256,
    (v \div 16777216) % 256>>

UInt16LE(v) == <<v % 256, (v \div 256) % 256>>

\* writeUInt32LE throws a RangeError for a value above 2^32 - 1
FitsUInt32(v) == v >= 0 /\ v \div 65536 <= 65535

\* buffer.readUInt32LE(off), buffer.readUInt16LE(off); they throw a
\* RangeError when the buffer ends before the last byte: CanRead
CanRead(b, off, n) == off + n <= Len(b)

ReadUInt32LE(b, off) ==
  b[off + 1] + 256 * b[off + 2] + 65536 * b[off + 3] + 16777216 * b[off + 4]

ReadUInt16LE(b, off) == b[off + 1] + 256 * b[off + 2]

\* The 44-byte header written for the audio specs and the two sizes; the
\* tags 'RIFF', 'WAVE', 'fmt ' and 'data' as character codes
WavHeader(fileSize, numChannels, sampleRate, blockAlign, bits, dataSize) ==
  <<82, 73, 70, 70>> \o UInt32LE(fileSize) \o <<87, 65, 86, 69>>
    \o <<102, 109, 116, 32>> \o UInt32LE(16) \o UInt16LE(1) \o UInt16LE(numChannels)
    \o UInt32LE(sampleRate) \o UInt32LE(sampleRate * blockAlign)
    \o UInt16LE(blockAlign) \o UInt16LE(bits)
    \o <<100, 97, 116, 97>> \o UInt32LE(dataSize)

\* buffer.subarray(start, end): end is clamped to the length of the buffer
Subarray(b, start, end) ==
  SubSeq(b, start + 1, IF end > Len(b) THEN Len(b) ELSE end)

\* audioData of one buffer with the header left in
AudioData_WholeBuffer(buffer) == buffer

\* audioData of one buffer: subarray(dataStart, dataStart + dataSize)
AudioData(buffer) == Subarray(buffer, 44, 44 + ReadUInt32LE(buffer, 40))

\* totalFileSize without the 8 bytes of "RIFF" and the size field taken off
TotalFileSize_WholeFile(totalDataSize) == 44 + totalDataSize

\* const totalFileSize = headerSize + totalDataSize - 8
TotalFileSize(totalDataSize) == 44 + totalDataSize - 8

\* audioDataChunks of the first k buffers, copied one after the other
RECURSIVE CopiedData(_, _)
CopiedData(buffers, k) ==
  IF k = 0 THEN <<>>
  ELSE CopiedData(buffers, k - 1) \o AudioData(buffers[k])

\* combineWavBuffers(buffers): whether it returns, and the buffer returned
CombineWavBuffers(buffers) ==
  IF \/ buffers = <<>>
     \/ ~CanRead(buffers[1], 24, 4)
     \/ ~CanRead(buffers[1], 34, 2)
     \/ \E k \in 1..Len(buffers) : ~CanRead(buffers[k], 40, 4)
    THEN [ok |-> FALSE, buffer |-> <<>>]
    ELSE LET sampleRate == ReadUInt32LE(buffers[1], 24)
             bitsPerSample == ReadUInt16LE(buffers[1], 34)
             numChannels == ReadUInt16LE(buffers[1], 22)
             blockAlign == numChannels * (bitsPerSample \div 8)
             data == CopiedData(buffers, Len(buffers))
             totalDataSize == Len(data)
         IN IF FitsUInt32(TotalFileSize(totalDataSize))
              THEN [ok |-> TRUE,
                    buffer |-> WavHeader(TotalFileSize(totalDataSize),
                                         numChannels, sampleRate, blockAlign,
                                         bitsPerSample, totalDataSize)
                                 \o data]
              ELSE [ok |-> FALSE, buffer |-> <<>>]

\* The data sizes the header of an input declares: none, as many bytes as
\* follow, more than follow, and a size of four different bytes
DeclaredSizes == {0, 1, 2, 16909060}

\* the bytes after the header of an input
Payloads == UNION {[1..n -> {7, 9}] : n \in 0..MaxPayload}

\* The buffers a download can give: a WAV file written as
\* generateAudioSegment writes its mock file, mono 16 bit at 44100 Hz, with
\* any declared data size; a file cut inside its header; and files of
\* another channel count, sample rate or bit depth
WavInputs ==
  {WavHeader(36 + d, 1, 44100, 2, 16, d) \o pl :
     d \in DeclaredSizes, pl \in Payloads}
    \cup {SubSeq(WavHeader(36, 1, 44100, 2, 16, 0), 1, 40)}
    \cup {WavHeader(36, 2, 44100, 4, 16, 0), WavHeader(36, 1, 22050, 2, 16, 0),
          WavHeader(36, 1, 44100, 1, 8, 0)}

\* One more buffer is downloaded
AddWavBuffer ==
  \E b \in WavInputs :
    /\ wavResult = "none"
    /\ Len(wavBuffers) < MaxBuffers
    /\ wavBuffers' = Append(wavBuffers, b)
    /\ UNCHANGED <<combined, wavResult, pipelineVars, pureVars, clientVars, thinkVars,
                   audioVars, combineVars>>

\* combineWavBuffers(audioBuffers)
Combine ==
  /\ wavResult = "none"
  /\ \E r \in {CombineWavBuffers(wavBuffers)} :
       /\ wavResult' = IF r.ok THEN "ok" ELSE "threw"
       /\ combined' = r.buffer
  /\ UNCHANGED <<wavBuffers, pipelineVars, pureVars, clientVars, thinkVars, audioVars, combineVars>>

InitWav == PipelineIdle /\ OthersIdle

NextWav ==
  \/ AddWavBuffer
  \/ Combine

SpecWav == InitWav /\ [][NextWav]_vars

\* --------------------------------------------- part_005: combine-audio POST
\* return NextResponse.json({ error }, { status }): nothing else is done
Respond(status, error) ==
  /\ response' = Response(status, error)
  /\ combinePc' = "responded"

\* POST with n audio segments: a request without segments and a missing
\* bucket name are answered at once, else the first download is started
CombinePost ==
  \E n \in 0..MaxBuffers, bucketName \in BOOLEAN :
    /\ combinePc = "idle"
    /\ segments' = n
    /\ IF n = 0 THEN Respond(400, "No audio segments provided")
       ELSE IF ~bucketName THEN Respond(500, "Storage configuration missing")
       ELSE combinePc' = "download" /\ response' = response
    /\ UNCHANGED <<downloadFailed, uploaded, metadataWritten, deleted, deleteFailures, wavVars,
                   pipelineVars, pureVars, clientVars, thinkVars, audioVars>>

\* downloadAudioFromUrl returns the buffer of segment i: the next download
\* is started, or after the last one the buffers are combined and the file
\* is saved; an error of combineWavBuffers goes to the catch of POST
DownloadReturns ==
  \E b \in WavInputs :
    /\ combinePc = "download"
    /\ wavBuffers' = Append(wavBuffers, b)
    /\ IF Len(wavBuffers) + 1 < segments
         THEN UNCHANGED <<combinePc, response, combined, wavResult>>
         ELSE \E r \in {CombineWavBuffers(Append(wavBuffers, b))} :
                /\ wavResult' = IF r.ok THEN "ok" ELSE "threw"
                /\ combined' = r.buffer
                /\ IF r.ok THEN combinePc' = "save" /\ response' = response
                   ELSE Respond(500, "Failed to combine audio")
    /\ UNCHANGED <<segments, downloadFailed, uploaded, metadataWritten,
                   deleted, deleteFailures, pipelineVars, pureVars, clientVars, thinkVars, audioVars>>

\* DownloadFails of a loop that leaves the segment out and goes on
DownloadFails_Skips ==
  /\ combinePc = "download"
  /\ downloadFailed' = TRUE
  /\ combinePc' = "save"
  /\ UNCHANGED <<segments, response, uploaded, metadataWritten, deleted, deleteFailures,
                 wavVars, pipelineVars, pureVars, clientVars, thinkVars, audioVars>>

\* downloadAudioFromUrl throws: the catch in the loop returns the response
DownloadFails ==
  /\ combinePc = "download"
  /\ downloadFailed' = TRUE
  /\ Respond(400, "Failed to download audio segment")
  /\ UNCHANGED <<segments, uploaded, metadataWritten, deleted, deleteFailures, wavVars,
                 pipelineVars, pureVars, clientVars, thinkVars, audioVars>>

\* file.save returns: the combined file is in the bucket
SaveReturns ==
  /\ combinePc = "save"
  /\ uploaded' = uploaded + 1
  /\ combinePc' = "makePublic"
  /\ UNCHANGED <<segments, response, downloadFailed, metadataWritten, deleted, deleteFailures,
                 wavVars, pipelineVars, pureVars, clientVars, thinkVars, audioVars>>

\* file.makePublic returns: the document of the podcast is set
MakePublicReturns ==
  /\ combinePc = "makePublic"
  /\ combinePc' = "set"
  /\ UNCHANGED <<segments, response, downloadFailed, uploaded,
                 metadataWritten, deleted, deleteFailures, wavVars, pipelineVars, pureVars, clientVars,
                 thinkVars, audioVars>>

\* set returns: deleteSegmentFiles calls file.delete() for every segment
SetReturns ==
  /\ combinePc = "set"
  /\ metadataWritten' = TRUE
  /\ deleted' = segments
  /\ combinePc' = "delete"
  /\ UNCHANGED <<segments, response, downloadFailed, uploaded, deleteFailures,
                 wavVars,
                 pipelineVars, pureVars, clientVars, thinkVars, audioVars>>

\* DeletesSettle of a cleanup whose failures reach the catch of POST
DeletesSettle_Throws ==
  \E failed \in 0..segments :
    /\ combinePc = "delete"
    /\ deleteFailures' = failed
    /\ IF failed = 0 THEN Respond(200, "none")
       ELSE Respond(500, "Failed to combine audio")
    /\ UNCHANGED <<segments, downloadFailed, uploaded, metadataWritten,
                   deleted, wavVars, pipelineVars, pureVars, clientVars, thinkVars,
                   audioVars>>

\* Promise.all of the deletions settles, the error of each rejected
\* file.delete() caught and logged in its own callback: success
DeletesSettle ==
  \E failed \in 0..segments :
    /\ combinePc = "delete"
    /\ deleteFailures' = failed
    /\ Respond(200, "none")
    /\ UNCHANGED <<segments, downloadFailed, uploaded, metadataWritten,
                   deleted, wavVars, pipelineVars, pureVars, clientVars, thinkVars,
                 wavVars, pipelineVars, pureVars, clientVars, thinkVars, audioVars>>

\* file.save, file.makePublic or set throws: the catch of POST
StorageFails ==
  /\ combinePc \in {"save", "makePublic", "set"}
  /\ Respond(500, "Failed to combine audio")
  /\ UNCHANGED <<segments, downloadFailed, uploaded, metadataWritten, deleted, deleteFailures,
                 wavVars, pipelineVars, pureVars, clientVars, thinkVars, audioVars>>

InitCombine == PipelineIdle /\ OthersIdle

NextCombine ==
  \/ CombinePost
  \/ DownloadReturns
  \/ DownloadFails
  \/ SaveReturns
  \/ MakePublicReturns
  \/ SetReturns
  \/ DeletesSettle
  \/ StorageFails

SpecCombine == InitCombine /\ [][NextCombine]_vars

\* --------------------------- llm-utils.ts: validation of a parsed outline
\* A string is the sequence of its characters.
\* value.toLowerCase(), for the letters A to Z
UpperToLower ==
  ("A" :> "a") @@ ("B" :> "b") @@ ("C" :> "c") @@ ("D" :> "d") @@
  ("E" :> "e") @@ ("F" :> "f") @@ ("G" :> "g") @@ ("H" :> "h") @@
  ("I" :> "i") @@ ("J" :> "j") @@ ("K" :> "k") @@ ("L" :> "l") @@
  ("M" :> "m") @@ ("N" :> "n") @@ ("O" :> "o") @@ ("P" :> "p") @@
  ("Q" :> "q") @@ ("R" :> "r") @@ ("S" :> "s") @@ ("T" :> "t") @@
  ("U" :> "u") @@ ("V" :> "v") @@ ("W" :> "w") @@ ("X" :> "x") @@
  ("Y" :> "y") @@ ("Z" :> "z")

ToLowerCase(s) ==
  [i \in 1..Len(s) |->
     IF s[i] \in DOMAIN UpperToLower THEN UpperToLower[s[i]] ELSE s[i]]

\* s.includes(t)
Includes(s, t) ==
  \E i \in 1..(Len(s) - Len(t) + 1) : \A k \in 1..Len(t) : s[i + k - 1] = t[k]

\* s.trim().length, for strings whose white space is the blank
TrimmedLength(s) ==
  LET inked == {i \in 1..Len(s) : s[i] # " "}
  IN IF inked = {} THEN 0
     ELSE (CHOOSE i \in inked : \A j \in inked : i >= j)
            - (CHOOSE i \in inked : \A j \in inked : i <= j) + 1

placeholderTerms ==
  {<<"s", "t", "r", "i", "n", "g">>,
   <<"y", "o", "u", "r", " ", "t", "i", "t", "l", "e", " ", "h", "e", "r", "e">>,
   <<"t", "i", "t", "l", "e", " ", "h", "e", "r", "e">>,
   <<"s", "e", "c", "t", "i", "o", "n", " ", "t", "i", "t", "l", "e">>,
   <<"d", "e", "s", "c", "r", "i", "p", "t", "i", "o", "n", " ", "h", "e", "r", "e">>,
   <<"a", "d", "d", " ", "d", "e", "s", "c", "r", "i", "p", "t", "i", "o", "n">>,
   <<"i", "n", "s", "e", "r", "t">>,
   <<"e", "x", "a", "m", "p", "l", "e">>,
   <<"p", "l", "a", "c", "e", "h", "o", "l", "d", "e", "r">>,
   <<"t", "e", "m", "p", "l", "a", "t", "e">>,
   <<"s", "a", "m", "p", "l", "e">>,
   <<"t", "o", "d", "o">>,
   <<"t", "b", "d">>,
   <<"f", "i", "l", "l", " ", "i", "n">>}

validDurations ==
  {<<"3", " ", "m", "i", "n", "u", "t", "e", "s">>,
   <<"2", "-", "3", " ", "m", "i", "n", "u", "t", "e", "s">>,
   <<"1", "2", "-", "1", "5", " ", "m", "i", "n", "u", "t", "e", "s">>,
   <<"1", "0", "-", "1", "5", " ", "m", "i", "n", "u", "t", "e", "s">>}

\* placeholderTerms.some(term => lowerValue.includes(term)) ||
\* value.trim().length < minLength
BadLeaf(value, minLength) ==
  \/ \E term \in placeholderTerms : Includes(ToLowerCase(value), term)
  \/ TrimmedLength(value) < minLength

\* key === durationKey && validDurations.some(dur => lowerValue.includes(dur))
DurationSkipped(key, durationKey, value) ==
  /\ key = durationKey
  /\ \E dur \in validDurations : Includes(ToLowerCase(value), dur)

\* const minLength = key === 'id' ? 3 : key === 'title' ? 8 : 5
SectionMinLength(key) == IF key = "id" THEN 3 ELSE IF key = "title" THEN 8 ELSE 5

\* The keys of the objects of an outline in the order of Object.entries;
\* keyPoints and keyTakeaways hold lists of strings, the others a string
OverviewKeys == <<"title", "totalDuration">>

SectionKeys == <<"id", "title", "description", "duration", "keyPoints">>

FinalKeys == <<"title", "duration", "keyTakeaways">>

\* The message of the Error thrown for a value: which part threw, the words
\* that follow the name of the field, and the value in quotes
OverviewMessage(value) ==
  <<"O", "v", "e", "r", "v", "i", "e", "w", " ", "c", "o", "n", "t", "a", "i", "n", "s", " ", "p", "l", "a", "c", "e", "h", "o", "l", "d", "e", "r", " ", "o", "r", " ", "i", "n", "s", "u", "f", "f", "i", "c", "i", "e", "n", "t", " ", "c", "o", "n", "t", "e", "n", "t", ":", " ", "\"">>
    \o value \o <<"\"">>

SectionMessage(value) ==
  <<"S", "e", "c", "t", "i", "o", "n", " ", "c", "o", "n", "t", "a", "i", "n", "s", " ", "p", "l", "a", "c", "e", "h", "o", "l", "d", "e", "r", " ", "c", "o", "n", "t", "e", "n", "t", ":", " ", "\"">>
    \o value \o <<"\"">>

FinalMessage(value) ==
  <<"F", "i", "n", "a", "l", " ", "t", "h", "o", "u", "g", "h", "t", "s", " ", "c", "o", "n", "t", "a", "i", "n", "s", " ", "p", "l", "a", "c", "e", "h", "o", "l", "d", "e", "r", " ", "c", "o", "n", "t", "e", "n", "t", ":", " ", "\"">>
    \o value \o <<"\"">>

\* the first element of a set of indices
First(S) == CHOOSE i \in S : \A j \in S : i <= j

\* The check of one object obj with the keys `keys`: the value the first
\* throw is about, or <<>> when none throws.  A string is checked against
\* min[key] unless it is a duration that is skipped, each string of the
\* list under listKey against 8.
RECURSIVE FirstBad(_, _, _, _, _, _)
FirstBad(obj, keys, k, durationKey, listKey, min) ==
  IF k > Len(keys) THEN <<>>
  ELSE LET key == keys[k]
           value == obj[key]
       IN IF key = listKey
            THEN LET bad == {j \in 1..Len(value) : BadLeaf(value[j], 8)}
                 IN IF bad # {} THEN value[First(bad)]
                    ELSE FirstBad(obj, keys, k + 1, durationKey, listKey, min)
            ELSE IF ~DurationSkipped(key, durationKey, value)
                    /\ BadLeaf(value, min[key])
                   THEN value
                   ELSE FirstBad(obj, keys, k + 1, durationKey, listKey, min)

\* validateOutlineContent(outline): the message of the Error it throws, or
\* <<>> when it returns true
ValidateOutlineContent(outline) ==
  LET o == FirstBad(outline.overview, OverviewKeys, 1, "totalDuration",
                    "none", [key \in {"title", "totalDuration"} |-> 3])
      s == [i \in 1..Len(outline.sections) |->
              FirstBad(outline.sections[i], SectionKeys, 1, "duration",
                       "keyPoints",
                       [key \in {"id", "title", "description", "duration"}
                          |-> SectionMinLength(key)])]
      badSections == {i \in 1..Len(outline.sections) : s[i] # <<>>}
      f == FirstBad(outline.finalThoughts, FinalKeys, 1, "duration",
                    "keyTakeaways", [key \in {"title", "duration"} |-> 3])
  IN IF o # <<>> THEN OverviewMessage(o)
     ELSE IF badSections # {} THEN SectionMessage(s[First(badSections)])
     ELSE IF f # <<>> THEN FinalMessage(f)
     ELSE <<>>

\* The message of the SyntaxError JSON.parse throws for a text that is not
\* JSON: a string that is not closed, a trailing comma or another misplaced
\* character, a text that ends too early
SyntaxMessage(syntax) ==
  IF syntax = "unterminated"
    THEN <<"U", "n", "t", "e", "r", "m", "i", "n", "a", "t", "e", "d", " ", "s", "t", "r", "i", "n", "g", " ", "i", "n", " ", "J", "S", "O", "N", " ", "a", "t", " ", "p", "o", "s", "i", "t", "i", "o", "n", " ", "9">>
  ELSE IF syntax = "truncated"
    THEN <<"U", "n", "e", "x", "p", "e", "c", "t", "e", "d", " ", "e", "n", "d", " ", "o", "f", " ", "J", "S", "O", "N", " ", "i", "n", "p", "u", "t">>
  ELSE <<"E", "x", "p", "e", "c", "t", "e", "d", " ", "d", "o", "u", "b", "l", "e", "-", "q", "u", "o", "t", "e", "d", " ", "p", "r", "o", "p", "e", "r", "t", "y", " ", "n", "a", "m", "e", " ", "i", "n", " ", "J", "S", "O", "N">>

\* The last catch of parseJSONFromResponse: the Error thrown, named by the
\* words its message begins with, for the message of the first error
ParseError(errorMessage) ==
  IF Includes(errorMessage, <<"U", "n", "t", "e", "r", "m", "i", "n", "a", "t", "e", "d", " ", "s", "t", "r", "i", "n", "g">>)
    THEN "JSON parsing failed: Found unterminated string"
  ELSE IF Includes(errorMessage, <<"E", "x", "p", "e", "c", "t", "e", "d">>)
    THEN "JSON parsing failed: Invalid JSON structure"
  ELSE IF Includes(errorMessage, <<"p", "l", "a", "c", "e", "h", "o", "l", "d", "e", "r", " ", "c", "o", "n", "t", "e", "n", "t">>)
    THEN "Content validation failed"
  ELSE "Failed to parse JSON response"

\* parseJSONFromResponse(response, validateContent) for a response of at least
\* ten characters: "none" when it returns the parsed object, else the Error.
\* resp.syntax says whether the cleaned text is JSON ("valid"), becomes JSON
\* by fixCommonJSONIssues ("fixable"), or stays a syntax error.
ParseJSONFromResponse(resp, validateContent) ==
  LET invalid == IF validateContent THEN ValidateOutlineContent(resp.outline)
                 ELSE <<>>
  IN IF resp.syntax = "valid"
       THEN IF invalid = <<>> THEN "none" ELSE ParseError(invalid)
     ELSE IF resp.syntax = "fixable" /\ invalid = <<>> THEN "none"
     ELSE ParseError(SyntaxMessage(resp.syntax))

\* hasObviousPlaceholders of generatePodcastOutline
HasObviousPlaceholders(outline) ==
  \/ Includes(ToLowerCase(outline.overview.title), <<"s", "t", "r", "i", "n", "g">>)
  \/ Includes(ToLowerCase(outline.overview.title), <<"t", "i", "t", "l", "e", " ", "h", "e", "r", "e">>)
  \/ \E i \in 1..Len(outline.sections) :
       \/ Includes(ToLowerCase(outline.sections[i].title), <<"s", "t", "r", "i", "n", "g">>)
       \/ Includes(ToLowerCase(outline.sections[i].title),
                   <<"s", "e", "c", "t", "i", "o", "n", " ", "t", "i", "t", "l", "e">>)
       \/ \E j \in 1..Len(outline.sections[i].keyPoints) :
            \/ Includes(ToLowerCase(outline.sections[i].keyPoints[j]),
                        <<"s", "t", "r", "i", "n", "g">>)
            \/ TrimmedLength(outline.sections[i].keyPoints[j]) < 5

\* One attempt of generatePodcastOutline on a response: "none" when the
\* outline is returned, else what is thrown
OutlineAttempt(resp) ==
  IF ParseJSONFromResponse(resp, FALSE) # "none" THEN "parse"
  ELSE IF Len(resp.outline.sections) < MinSections THEN "few_sections"
  ELSE IF HasObviousPlaceholders(resp.outline) THEN "placeholder"
  ELSE "none"

\* An outline of three sections that is filled in properly
GoodText == <<"A", "I", " ", "R", "e", "v", "o", "l", "u", "t", "i", "o", "n", " ", "i", "n", " ", "H", "e", "a", "l", "t", "h", "c", "a", "r", "e">>

GoodSection ==
  [id |-> <<"i", "n", "t", "r", "o">>, title |-> GoodText, description |-> GoodText,
   duration |-> <<"3", " ", "m", "i", "n", "u", "t", "e", "s">>, keyPoints |-> <<GoodText>>]

GoodOutline ==
  [overview |-> [title |-> GoodText, totalDuration |-> <<"1", "2", "-", "1", "5", " ", "m", "i", "n", "u", "t", "e", "s">>],
   sections |-> <<GoodSection, GoodSection, GoodSection>>,
   finalThoughts |-> [title |-> GoodText, duration |-> <<"3", " ", "m", "i", "n", "u", "t", "e", "s">>,
                      keyTakeaways |-> <<GoodText>>]]

\* What a model writes into a field it does not fill in properly: a
\* placeholder, a short word, a placeholder in capitals, two letters
\* between blanks, a duration with a placeholder after it
PoorTexts ==
  {<<"s", "t", "r", "i", "n", "g">>,
   <<"S", "h", "o", "r", "t">>,
   <<"T", "B", "D">>,
   <<" ", "a", "b", " ">>,
   <<"3", " ", "m", "i", "n", "u", "t", "e", "s", " ", "T", "B", "D">>}

\* the outlines that differ from the good one in at most one leaf
Outlines ==
  {GoodOutline}
    \cup {[GoodOutline EXCEPT !.overview[key] = v] :
            key \in {"title", "totalDuration"}, v \in PoorTexts}
    \cup {[GoodOutline EXCEPT !.sections[i][key] = v] :
            i \in 1..MinSections,
            key \in {"id", "title", "description", "duration"},
            v \in PoorTexts}
    \cup {[GoodOutline EXCEPT !.sections[i].keyPoints = <<v>>] :
            i \in 1..MinSections, v \in PoorTexts}
    \cup {[GoodOutline EXCEPT !.finalThoughts[key] = v] :
            key \in {"title", "duration"}, v \in PoorTexts}
    \cup {[GoodOutline EXCEPT !.finalThoughts.keyTakeaways = <<v>>] :
            v \in PoorTexts}

\* A chat completion answers with an outline, as JSON or not quite
ModelResponds ==
  \E syntax \in {"valid", "fixable", "unterminated", "truncated"},
     outline \in Outlines :
    /\ llmResponse.syntax = "none"
    /\ llmResponse' = [syntax |-> syntax, outline |-> outline]
    /\ UNCHANGED <<checkResult, compileScripts, maxTokens, sizedVars, cleanVars, compileVars, sseVars, generationVars, recordVars, pipelineVars, clientVars, thinkVars,
                   audioVars, wavVars, combineVars>>

\* validateOutlineContent is applied to the outline of a response that is
\* JSON
ValidateOutline ==
  /\ llmResponse.syntax = "valid"
  /\ checkResult.op = "none"
  /\ checkResult' = [op |-> "validate",
                     error |-> ValidateOutlineContent(llmResponse.outline)]
  /\ UNCHANGED <<llmResponse, compileScripts, maxTokens, sizedVars, cleanVars, compileVars, sseVars, generationVars, recordVars, pipelineVars, clientVars, thinkVars,
                 audioVars, wavVars, combineVars>>

\* parseJSONFromResponse(response) is applied, validation on
ParseStrict ==
  /\ llmResponse.syntax # "none"
  /\ checkResult.op = "none"
  /\ checkResult' = [op |-> "parse",
                     error |-> ParseJSONFromResponse(llmResponse, TRUE)]
  /\ UNCHANGED <<llmResponse, compileScripts, maxTokens, sizedVars, cleanVars, compileVars, sseVars, generationVars, recordVars, pipelineVars, clientVars, thinkVars,
                 audioVars, wavVars, combineVars>>

\* one attempt of generatePodcastOutline gets the response
OutlineStageChecks ==
  /\ llmResponse.syntax # "none"
  /\ checkResult.op = "none"
  /\ checkResult' = [op |-> "attempt", error |-> OutlineAttempt(llmResponse)]
  /\ UNCHANGED <<llmResponse, compileScripts, maxTokens, sizedVars, cleanVars, compileVars, sseVars, generationVars, recordVars, pipelineVars, clientVars, thinkVars,
                 audioVars, wavVars, combineVars>>

NextOutline ==
  \/ ModelResponds
  \/ ValidateOutline
  \/ ParseStrict
  \/ OutlineStageChecks

InitOutline == PipelineIdle /\ OthersIdle

SpecOutline == InitOutline /\ [][NextOutline]_vars

\* ------------------------------- createFinalScript: the ceiling of its calls
\* A script as far as the ceiling depends on it: its length and whether
\* script.trim() is empty (an empty script is blank)
ScriptLengths == {0, 1, 14999, 15000, 35000, 35001}

Scripts ==
  {s \in [length : ScriptLengths, blank : BOOLEAN] : s.length = 0 => s.blank}

\* outline.sections.map(s => s.script || "").filter(script => script.trim())
AllSectionScripts(sections) == SelectSeq(sections, LAMBDA s : ~s.blank)

\* [...allSectionScripts, finalThoughtsScript].join("").length
RECURSIVE JoinedLength(_)
JoinedLength(list) ==
  IF list = <<>> THEN 0 ELSE Head(list).length + JoinedLength(Tail(list))

AllContentLength(sections, finalThoughts) ==
  JoinedLength(Append(AllSectionScripts(sections), finalThoughts))

\* the ceiling with both thresholds taken into the outer ranges
MaxTokensFor_Inclusive(allContentLength) ==
  IF allContentLength >= 50000 THEN 15000
  ELSE IF allContentLength <= 15000 THEN 8000
  ELSE 10000

\* let maxTokens = 10000; if (allContentLength > 50000) maxTokens = 15000;
\* else if (allContentLength < 15000) maxTokens = 8000
MaxTokensFor(allContentLength) ==
  IF allContentLength > 50000 THEN 15000
  ELSE IF allContentLength < 15000 THEN 8000
  ELSE 10000

\* createFinalScript is called with an outline whose sections and final
\* thoughts have their scripts
CompilationStarts ==
  /\ compileScripts.called = FALSE
  /\ \E n \in 1..MaxScripts :
       \E sections \in [1..n -> Scripts], finalThoughts \in Scripts :
         compileScripts' = [called |-> TRUE, sections |-> sections,
                            finalThoughts |-> finalThoughts]
  /\ UNCHANGED <<maxTokens, llmResponse, checkResult, sizedVars, cleanVars, compileVars, sseVars, generationVars, recordVars, pipelineVars, clientVars,
                 thinkVars, audioVars, wavVars, combineVars>>

\* the ceiling is determined; both the structured call and the plain call
\* that follows its failure are made with it
CeilingDetermined ==
  /\ compileScripts.called
  /\ maxTokens = 0
  /\ maxTokens' = MaxTokensFor(AllContentLength(compileScripts.sections,
                                                compileScripts.finalThoughts))
  /\ UNCHANGED <<compileScripts, llmResponse, checkResult, sizedVars, cleanVars, compileVars, sseVars, generationVars, recordVars, pipelineVars,
                 clientVars, thinkVars, audioVars, wavVars, combineVars>>

NextCeiling ==
  \/ CompilationStarts
  \/ CeilingDetermined

InitCeiling == PipelineIdle /\ OthersIdle

SpecCeiling == InitCeiling /\ [][NextCeiling]_vars

\* ------------------- combine-audio on whole files: sizes and the duration
\* A buffer of the size of a real file: the 44 bytes of its header as they
\* are, and of what follows the number of bytes and whether all are zero
SizedBuffer(header, dataLength, zero) ==
  [header |-> header, dataLength |-> dataLength, zero |-> zero]

\* the mock file with samples of one byte
MockAudioSegment_OneByteSamples ==
  SizedBuffer(WavHeader(44 + 44100 * 3 - 8, 1, 44100, 2, 16, 44100 * 3),
              44100 * 3, TRUE)

\* generateAudioSegment in mock mode: Buffer.alloc(headerSize + dataSize)
\* with the header of 3 seconds of mono 16-bit silence at 44100 Hz
MockAudioSegment ==
  SizedBuffer(WavHeader(44 + 44100 * 3 * 2 - 8, 1, 44100, 2, 16,
                        44100 * 3 * 2),
              44100 * 3 * 2, TRUE)

\* the formats of the files a download can give: channels, sample rate,
\* block align, bits per sample
WavFormats ==
  {<<1, 44100, 2, 16>>, <<2, 44100, 4, 16>>, <<1, 22050, 2, 16>>,
   <<1, 44100, 1, 8>>}

\* the data sizes of the files a download can give, in half seconds of mono
\* 16-bit audio at 44100 Hz
DataLengths == {44100 * k : k \in 0..MaxHalfSeconds}

\* The buffers a download can give: the file of a mock segment, and files of
\* any of the formats whose header declares the bytes that follow
SizedInputs ==
  {MockAudioSegment}
    \cup {SizedBuffer(WavHeader(36 + d, f[1], f[2], f[3], f[4], d), d, FALSE) :
            f \in WavFormats, d \in DataLengths}

\* buffer.subarray(44, 44 + buffer.readUInt32LE(40)).length
AudioDataLength(buffer) ==
  IF ReadUInt32LE(buffer.header, 40) < buffer.dataLength
    THEN ReadUInt32LE(buffer.header, 40) ELSE buffer.dataLength

\* totalDataSize += audioData.length, over the buffers
RECURSIVE TotalDataSize(_)
TotalDataSize(buffers) ==
  IF buffers = <<>> THEN 0
  ELSE AudioDataLength(Head(buffers)) + TotalDataSize(Tail(buffers))

\* combineWavBuffers on buffers of real size: the audio specs of the first
\* buffer, the data of all
CombineSized(buffers) ==
  LET sampleRate == ReadUInt32LE(buffers[1].header, 24)
      bitsPerSample == ReadUInt16LE(buffers[1].header, 34)
      numChannels == ReadUInt16LE(buffers[1].header, 22)
      blockAlign == numChannels * (bitsPerSample \div 8)
      totalDataSize == TotalDataSize(buffers)
  IN SizedBuffer(WavHeader(TotalFileSize(totalDataSize), numChannels,
                           sampleRate, blockAlign, bitsPerSample,
                           totalDataSize),
                 totalDataSize,
                 \A k \in 1..Len(buffers) : buffers[k].zero)

\* the estimate that takes dataSize / 88200 down to a whole number
EstimateAudioDuration_Floor(buffer) == buffer.dataLength \div 88200

\* estimateAudioDuration(buffer): Math.round((buffer.length - 44) / 88200)
EstimateAudioDuration(buffer) ==
  RoundDiv((44 + buffer.dataLength) - 44, 88200)

\* One more segment is downloaded
SizedBufferDownloaded ==
  \E b \in SizedInputs :
    /\ combinedAudioBuffer.header = <<>>
    /\ Len(audioBuffers) < MaxAudioBuffers
    /\ audioBuffers' = Append(audioBuffers, b)
    /\ UNCHANGED <<combinedAudioBuffer, duration, llmResponse, checkResult,
                   compileScripts, maxTokens, cleanVars, compileVars, sseVars, generationVars, recordVars, pipelineVars, clientVars,
                   thinkVars, audioVars, wavVars, combineVars>>

\* combineWavBuffers(audioBuffers) of at least one buffer
SizedBuffersCombined ==
  /\ combinedAudioBuffer.header = <<>>
  /\ audioBuffers # <<>>
  /\ combinedAudioBuffer' = CombineSized(audioBuffers)
  /\ UNCHANGED <<audioBuffers, duration, llmResponse, checkResult,
                 compileScripts, maxTokens, cleanVars, compileVars, sseVars, generationVars, recordVars, pipelineVars, clientVars,
                 thinkVars, audioVars, wavVars, combineVars>>

\* podcastData.duration: estimateAudioDuration(combinedAudioBuffer)
DurationEstimated ==
  /\ combinedAudioBuffer.header # <<>>
  /\ duration = -1
  /\ duration' = EstimateAudioDuration(combinedAudioBuffer)
  /\ UNCHANGED <<audioBuffers, combinedAudioBuffer, llmResponse, checkResult,
                 compileScripts, maxTokens, cleanVars, compileVars, sseVars, generationVars, recordVars, pipelineVars, clientVars,
                 thinkVars, audioVars, wavVars, combineVars>>

InitSized == PipelineIdle /\ OthersIdle

NextSized ==
  \/ SizedBufferDownloaded
  \/ SizedBuffersCombined
  \/ DurationEstimated

SpecSized == InitSized /\ [][NextSized]_vars

\* ------------------------------------ llm-utils.ts: cleanResponseForJSON
\* Strings are sequences of characters.  pat occurs in s at index i
MatchAt(s, i, pat) ==
  /\ i + Len(pat) - 1 <= Len(s)
  /\ \A k \in 1..Len(pat) : s[i + k - 1] = pat[k]

\* s.indexOf(pat, from), 1-based; 0 when there is none
IndexFrom(s, pat, from) ==
  LET found == {i \in from..Len(s) : MatchAt(s, i, pat)}
  IN IF found = {} THEN 0 ELSE CHOOSE i \in found : \A j \in found : i <= j

ThinkOpen == <<"<", "t", "h", "i", "n", "k", ">">>

ThinkClose == <<"<", "/", "t", "h", "i", "n", "k", ">">>

\* the backquote, which a string of this module cannot hold, is written as
\* another character that no text here contains
Tick == "#"

\* the alternatives of the two patterns that remove the fences of a code
\* block, three backquotes with json or alone, and three backquotes with
\* typescript or ts, each without its optional line feed
JsonFences == <<<<Tick, Tick, Tick, "j", "s", "o", "n">>, <<Tick, Tick, Tick>>>>

TsFences ==
  <<<<Tick, Tick, Tick, "t", "y", "p", "e", "s", "c", "r", "i", "p", "t">>,
    <<Tick, Tick, Tick, "t", "s">>>>

\* .replace(/<think>[\s\S]*?<\/think>/g, ""): from the leftmost open tag
\* that has a close tag after it to the first such close tag, then on from
\* the end of the match
RECURSIVE RemoveThinkSpans(_)
RemoveThinkSpans(s) ==
  LET open == IndexFrom(s, ThinkOpen, 1)
      close == IF open = 0 THEN 0
               ELSE IndexFrom(s, ThinkClose, open + Len(ThinkOpen))
  IN IF close = 0 THEN s
     ELSE SubSeq(s, 1, open - 1)
            \o RemoveThinkSpans(SubSeq(s, close + Len(ThinkClose), Len(s)))

\* .replace(/A\n?|B\n?/g, "") for the alternatives alts: at each index the
\* first alternative that matches is removed with the line feed after it,
\* then on from the end of the match
RECURSIVE RemoveFences(_, _)
RemoveFences(s, alts) ==
  IF s = <<>> THEN <<>>
  ELSE LET hits == {a \in 1..Len(alts) : MatchAt(s, 1, alts[a])}
       IN IF hits = {} THEN <<Head(s)>> \o RemoveFences(Tail(s), alts)
          ELSE LET n == Len(alts[CHOOSE a \in hits : \A b \in hits : a <= b])
                   m == IF n < Len(s) /\ s[n + 1] = "\n" THEN n + 1 ELSE n
               IN RemoveFences(SubSeq(s, m + 1, Len(s)), alts)

\* s.trim(), for strings whose white space is the blank and the line feed
Trim(s) ==
  LET inked == {i \in 1..Len(s) : s[i] \notin {" ", "\n"}}
  IN IF inked = {} THEN <<>>
     ELSE SubSeq(s, CHOOSE i \in inked : \A j \in inked : i <= j,
                 CHOOSE i \in inked : \A j \in inked : i >= j)

\* cleaned.substring(startBrace, lastBrace + 1) when there is a '{' with a
\* '}' after it
BetweenBraces(s) ==
  LET opens == {i \in 1..Len(s) : s[i] = "{"}
      closes == {i \in 1..Len(s) : s[i] = "}"}
  IN IF opens = {} \/ closes = {} THEN s
     ELSE LET startBrace == CHOOSE i \in opens : \A j \in opens : i <= j
              lastBrace == CHOOSE i \in closes : \A j \in closes : i >= j
          IN IF lastBrace > startBrace THEN SubSeq(s, startBrace, lastBrace)
             ELSE s

\* cleanResponseForJSON(response)
CleanResponseForJSON(resp) ==
  BetweenBraces(Trim(RemoveFences(RemoveFences(RemoveThinkSpans(resp),
                                               JsonFences), TsFences)))

\* the pieces the text of a response is made of
Pieces ==
  {ThinkOpen, ThinkClose, <<"<", "t", "h", "i">>, <<"n", "k", ">">>,
   <<Tick, Tick, Tick>>, <<"j", "s", "o", "n", "\n">>, <<"{">>, <<"}">>,
   <<" ">>, <<"x">>}

\* the text made of the pieces ps
RECURSIVE Joined(_)
Joined(ps) == IF ps = <<>> THEN <<>> ELSE Head(ps) \o Joined(Tail(ps))

\* the texts of up to MaxPieces pieces
Responses == {Joined(ps) : ps \in UNION {[1..n -> Pieces] : n \in 0..MaxPieces}}

\* a model answers with a text
ResponseGiven ==
  /\ cleanPc = "idle"
  /\ \E resp \in Responses : rawResponse' = resp
  /\ cleanPc' = "given"
  /\ UNCHANGED <<cleaned, cleanedAgain, llmResponse, checkResult,
                 compileScripts, maxTokens, sizedVars, compileVars, sseVars, generationVars, recordVars, pipelineVars,
                 clientVars, thinkVars, audioVars, wavVars, combineVars>>

\* cleanResponseForJSON(response)
ResponseCleaned ==
  /\ cleanPc = "given"
  /\ cleaned' = CleanResponseForJSON(rawResponse)
  /\ cleanPc' = "once"
  /\ UNCHANGED <<rawResponse, cleanedAgain, llmResponse, checkResult,
                 compileScripts, maxTokens, sizedVars, compileVars, sseVars, generationVars, recordVars, pipelineVars,
                 clientVars, thinkVars, audioVars, wavVars, combineVars>>

\* cleanResponseForJSON of what it returned
CleanedAgain ==
  /\ cleanPc = "once"
  /\ cleanedAgain' = CleanResponseForJSON(cleaned)
  /\ cleanPc' = "twice"
  /\ UNCHANGED <<rawResponse, cleaned, llmResponse, checkResult,
                 compileScripts, maxTokens, sizedVars, compileVars, sseVars, generationVars, recordVars, pipelineVars,
                 clientVars, thinkVars, audioVars, wavVars, combineVars>>

InitClean == PipelineIdle /\ OthersIdle

NextClean ==
  \/ ResponseGiven
  \/ ResponseCleaned
  \/ CleanedAgain

SpecClean == InitClean /\ [][NextClean]_vars

\* --------------------- createFinalScript: the dialogue and the compiled script
\* The exchanges of the section scripts and of the final thoughts are
\* numbered in the order the prompt lists them; a line of the compiled
\* script is one of them, or 0 for a line the compilation added
\* (introduction, transition, wrap-up)
CompiledLines(exchanges) ==
  UNION {[1..n -> 0..exchanges] : n \in 0..(exchanges + 1)}

\* what a chat completion can answer to the compilation prompt: text that
\* JSON.parse takes, with podcast.script of any lines, or text it does not
CompilationAnswers(exchanges) ==
  {[syntax |-> "json", script |-> lines] : lines \in CompiledLines(exchanges)}
    \cup {[syntax |-> "garbage", script |-> <<>>]}

\* createFinalScript is called: the prompt lists every section script and
\* the final-thoughts script in outline order, and the call is made
CompilationAsked ==
  /\ compilePc = "idle"
  /\ \E exchanges \in 1..MaxExchanges : promptExchanges' = exchanges
  /\ compilePc' = "asked"
  /\ UNCHANGED <<compiledScript, llmResponse, checkResult, compileScripts,
                 maxTokens, sizedVars, cleanVars, sseVars, generationVars, recordVars, pipelineVars, clientVars,
                 thinkVars, audioVars, wavVars, combineVars>>

\* the answer arrives and parseJSONFromResponse(finalResponse) is applied:
\* JSON.stringify(parsed, null, 2) is the final script, whatever its lines;
\* text that does not parse makes createFinalScript throw
CompilationAnswered ==
  /\ compilePc = "asked"
  /\ \E answer \in CompilationAnswers(promptExchanges) :
       IF answer.syntax = "json"
         THEN /\ compiledScript' = answer.script
              /\ compilePc' = "compiled"
         ELSE /\ compilePc' = "threw"
              /\ UNCHANGED compiledScript
  /\ UNCHANGED <<promptExchanges, llmResponse, checkResult, compileScripts,
                 maxTokens, sizedVars, cleanVars, sseVars, generationVars, recordVars, pipelineVars, clientVars,
                 thinkVars, audioVars, wavVars, combineVars>>

InitCompile == PipelineIdle /\ OthersIdle

NextCompile ==
  \/ CompilationAsked
  \/ CompilationAnswered

SpecCompile == InitCompile /\ [][NextCompile]_vars

\* ------------------- podcast-generation.tsx: the read loop of the event stream
\* sendEvent enqueues `data: ${JSON.stringify(data)}\n\n` for every event.
\* A frame is held as FrameLen characters: the prefix "data: " (PrefixLen
\* characters), the JSON text (JsonLen characters) and two newlines.  The
\* character at position k of the body belongs to frame FrameOf(k) and is
\* its character number OffsetOf(k).
PrefixLen == 2

JsonLen == 2

FrameLen == PrefixLen + JsonLen + 2

FrameOf(k) == ((k - 1) \div FrameLen) + 1

OffsetOf(k) == ((k - 1) % FrameLen) + 1

IsNewline(k) == OffsetOf(k) > PrefixLen + JsonLen

\* chunk.split("\n") for the chunk of the positions from..to: the lines,
\* each as its first and last position; empty lines are left out, they
\* start with nothing
RECURSIVE SplitLines(_, _, _)
SplitLines(from, to, lines) ==
  IF from > to THEN lines
  ELSE IF IsNewline(from) THEN SplitLines(from + 1, to, lines)
  ELSE LET ends == {k \in from..to : k = to \/ IsNewline(k + 1)}
           last == CHOOSE k \in ends : \A j \in ends : k <= j
       IN SplitLines(last + 1, to, Append(lines, <<from, last>>))

\* line.startsWith("data: ")
StartsWithData(line) ==
  /\ OffsetOf(line[1]) = 1
  /\ line[2] - line[1] + 1 >= PrefixLen

\* JSON.parse(line.slice(6)) returns: the rest of the line is the whole JSON
\* text of the frame; a proper prefix of it is not JSON and parse throws
JsonParses(line) == line[2] - line[1] + 1 = PrefixLen + JsonLen

\* for (const line of lines): the events of one chunk that are handled
HandledIn(from, to) ==
  LET lines == SplitLines(from, to, <<>>)
      good == SelectSeq(lines, LAMBDA l : StartsWithData(l) /\ JsonParses(l))
  IN [i \in 1..Len(good) |-> FrameOf(good[i][1])]

\* the route has sent its events and closed the stream
FramesSent ==
  /\ ssePc = "idle"
  /\ \E n \in 1..MaxFrames : sseFrames' = n
  /\ ssePc' = "reading"
  /\ UNCHANGED <<sseRead, sseHandled, llmResponse, checkResult,
                 compileScripts, maxTokens, sizedVars, cleanVars, compileVars,
                 generationVars, recordVars, pipelineVars, clientVars, thinkVars, audioVars, wavVars,
                 combineVars>>

\* reader.read() returns the next chunk, of any length the network chose
ChunkRead ==
  /\ ssePc = "reading"
  /\ \E to \in (sseRead + 1)..(sseFrames * FrameLen) :
       /\ sseHandled' = sseHandled \o HandledIn(sseRead + 1, to)
       /\ sseRead' = to
  /\ UNCHANGED <<sseFrames, ssePc, llmResponse, checkResult, compileScripts,
                 maxTokens, sizedVars, cleanVars, compileVars, generationVars, recordVars, pipelineVars,
                 clientVars, thinkVars, audioVars, wavVars, combineVars>>

\* reader.read() reports done: the loop breaks
BodyEnds ==
  /\ ssePc = "reading"
  /\ sseRead = sseFrames * FrameLen
  /\ ssePc' = "done"
  /\ UNCHANGED <<sseFrames, sseRead, sseHandled, llmResponse, checkResult,
                 compileScripts, maxTokens, sizedVars, cleanVars, compileVars,
                 generationVars, recordVars, pipelineVars, clientVars, thinkVars, audioVars, wavVars,
                 combineVars>>

InitSse == PipelineIdle /\ OthersIdle

NextSse ==
  \/ FramesSent
  \/ ChunkRead
  \/ BodyEnds

SpecSse == InitSse /\ [][NextSse]_vars

\* ------------------ audio-generation.tsx: startAudioGeneration on the client
\* the events of the generate-audio stream, by type
AudioEventTypes ==
  {"progress", "segment_complete", "segment_error", "complete", "error"}

\* what the body can hold before it ends: any events
AudioBodies == UNION {[1..n -> AudioEventTypes] : n \in 0..MaxAudioEvents}

\* the catch of startAudioGeneration: setError and setIsGenerating(false)
OuterCatch(message) ==
  /\ genError' = message
  /\ isGenerating' = FALSE
  /\ genPc' = "returned"

\* the button is pressed.  A script that does not parse, or has no script
\* array, is reported and the function returns before the generating state
\* is set; otherwise the state is reset and the request is sent.
\* combinationStarted is false here: the button is rendered only before the
\* first run.
GenerationStarts ==
  /\ genPc = "idle"
  /\ \E valid \in BOOLEAN :
       IF valid
         THEN /\ isGenerating' = TRUE
              /\ genError' = "none"
              /\ genPc' = "fetching"
         ELSE /\ genError' = "invalid script"
              /\ genPc' = "returned"
              /\ UNCHANGED isGenerating
  /\ UNCHANGED <<genBody, errorEvents, llmResponse, checkResult,
                 compileScripts, maxTokens, sizedVars, cleanVars, compileVars,
                 sseVars, recordVars, pipelineVars, clientVars, thinkVars, audioVars,
                 wavVars, combineVars>>

\* fetch settles: with a stream, or with a status that is not ok, a
\* rejection or an abort, which are thrown to the catch
GenerationFetchSettles ==
  /\ genPc = "fetching"
  /\ \/ /\ \E body \in AudioBodies : genBody' = body
        /\ genPc' = "reading"
        /\ UNCHANGED <<isGenerating, genError>>
     \/ /\ \E message \in {"http error", "cancelled"} : OuterCatch(message)
        /\ UNCHANGED genBody
  /\ UNCHANGED <<errorEvents, llmResponse, checkResult, compileScripts,
                 maxTokens, sizedVars, cleanVars, compileVars, sseVars,
                 recordVars, pipelineVars, clientVars, thinkVars, audioVars, wavVars,
                 combineVars>>

\* what the inner try does with an event of type `error`:
\* throw new Error(eventData.data.error) is caught by the catch around
\* JSON.parse, which logs "Failed to parse SSE data"; the loop goes on
ErrorEventHandled ==
  /\ genBody' = Tail(genBody)
  /\ UNCHANGED <<isGenerating, genError, genPc>>

\* the next complete event of the buffer is handled
AudioEventRead ==
  /\ genPc = "reading"
  /\ genBody # <<>>
  /\ errorEvents' = errorEvents + (IF Head(genBody) = "error" THEN 1 ELSE 0)
  /\ CASE Head(genBody) \in {"progress", "segment_complete",
                              "segment_error"} ->
            /\ genBody' = Tail(genBody)
            /\ UNCHANGED <<isGenerating, genError, genPc>>
       [] Head(genBody) = "complete" ->
            /\ genBody' = Tail(genBody)
            /\ genPc' = "combining"
            /\ UNCHANGED <<isGenerating, genError>>
       [] Head(genBody) = "error" -> ErrorEventHandled
  /\ UNCHANGED <<llmResponse, checkResult, compileScripts, maxTokens,
                 sizedVars, cleanVars, compileVars, sseVars, recordVars, pipelineVars,
                 clientVars, thinkVars, audioVars, wavVars, combineVars>>

\* reader.read() rejects: the connection broke, or the run was aborted
AudioReadRejects ==
  /\ genPc = "reading"
  /\ \E message \in {"network error", "cancelled"} : OuterCatch(message)
  /\ UNCHANGED <<genBody, errorEvents, llmResponse, checkResult,
                 compileScripts, maxTokens, sizedVars, cleanVars, compileVars,
                 sseVars, recordVars, pipelineVars, clientVars, thinkVars, audioVars,
                 wavVars, combineVars>>

\* reader.read() reports done: the loop breaks and the function is over;
\* nothing follows the loop inside the try, and the try has no finally
AudioBodyEnds ==
  /\ genPc = "reading"
  /\ genBody = <<>>
  /\ genPc' = "returned"
  /\ UNCHANGED <<isGenerating, genError, genBody, errorEvents, llmResponse,
                 checkResult, compileScripts, maxTokens, sizedVars, cleanVars,
                 compileVars, sseVars, recordVars, pipelineVars, clientVars, thinkVars,
                 audioVars, wavVars, combineVars>>

\* combineAudioSegments settles: its catch reports a failure, its finally
\* sets isGenerating to false; startAudioGeneration returns
CombinationSettles ==
  /\ genPc = "combining"
  /\ \E ok \in BOOLEAN :
       genError' = IF ok THEN genError ELSE "combine failed"
  /\ isGenerating' = FALSE
  /\ genPc' = "returned"
  /\ UNCHANGED <<genBody, errorEvents, llmResponse, checkResult,
                 compileScripts, maxTokens, sizedVars, cleanVars, compileVars,
                 sseVars, recordVars, pipelineVars, clientVars, thinkVars, audioVars,
                 wavVars, combineVars>>

InitGeneration == PipelineIdle /\ OthersIdle

NextGeneration ==
  \/ GenerationStarts
  \/ GenerationFetchSettles
  \/ AudioEventRead
  \/ AudioReadRejects
  \/ AudioBodyEnds
  \/ CombinationSettles

SpecGeneration == InitGeneration /\ [][NextGeneration]_vars

\* ------------- firestore.ts: the status of the generation record of one run
\* an event of the generate-podcast stream as the client handles it:
\* progress and error are those of a progress event
StreamEvent(type, progress, failed) ==
  [type |-> type, progress |-> progress, failed |-> failed]

\* the events a body can hold; 100 is the progress of the last event of a
\* run, 30 and 99 stand for the others
StreamEvents ==
  {StreamEvent("progress", p, f) : p \in {30, 99, 100}, f \in BOOLEAN}
    \cup {StreamEvent(t, 0, t = "error") : t \in {"complete", "error", "done"}}

\* updateGenerationProgress: the status it writes for a progress value and
\* an error that is there or not.  The spread of `progress.error && {...}`
\* comes last and overrides
UpdateStatus_ProgressFirst(progress, failed) ==
  IF progress = 100 THEN "completed"
  ELSE IF failed THEN "failed" ELSE "in_progress"

UpdateStatus(progress, failed) ==
  IF failed THEN "failed"
  ELSE IF progress = 100 THEN "completed" ELSE "in_progress"

\* the status the handler of an event writes: updateGenerationProgress with
\* the event's progress, saveGenerationResult for `complete`,
\* updateGenerationProgress({progress: 100, error}) for `error`; `done`
\* writes nothing
StatusAfter(event, status) ==
  CASE event.type = "progress" -> UpdateStatus(event.progress, event.failed)
    [] event.type = "complete" -> "completed"
    [] event.type = "error" -> UpdateStatus(100, TRUE)
    [] OTHER -> status

\* startGeneration of a signed-in user up to the request: an existing
\* record, whatever its status was, is reset with progress 0, and a new one
\* is created as `pending`
RecordRunStarts ==
  /\ recordPc = "idle"
  /\ \E existing \in BOOLEAN :
       recordStatus' = IF existing THEN UpdateStatus(0, FALSE) ELSE "pending"
  /\ recordPc' = "reading"
  /\ UNCHANGED <<handledEvents, llmResponse, checkResult, compileScripts,
                 maxTokens, sizedVars, cleanVars, compileVars, sseVars,
                 generationVars, pipelineVars, clientVars, thinkVars,
                 audioVars, wavVars, combineVars>>

\* the next event of the body is handled and its write is applied
RecordEventHandled ==
  /\ recordPc = "reading"
  /\ Len(handledEvents) < MaxRecordEvents
  /\ \E event \in StreamEvents :
       /\ handledEvents' = Append(handledEvents, event)
       /\ recordStatus' = StatusAfter(event, recordStatus)
  /\ UNCHANGED <<recordPc, llmResponse, checkResult, compileScripts,
                 maxTokens, sizedVars, cleanVars, compileVars, sseVars,
                 generationVars, pipelineVars, clientVars, thinkVars,
                 audioVars, wavVars, combineVars>>

\* reader.read() rejects, for a network error or because the user stopped
\* the run (AbortError): the catch writes
\* updateGenerationProgress({progress: 100, error: error.message})
RecordRunCaught ==
  /\ recordPc = "reading"
  /\ recordStatus' = UpdateStatus(100, TRUE)
  /\ recordPc' = "caught"
  /\ UNCHANGED <<handledEvents, llmResponse, checkResult, compileScripts,
                 maxTokens, sizedVars, cleanVars, compileVars, sseVars,
                 generationVars, pipelineVars, clientVars, thinkVars,
                 audioVars, wavVars, combineVars>>

\* reader.read() reports done: the loop is left
RecordRunEnds ==
  /\ recordPc = "reading"
  /\ recordPc' = "ended"
  /\ UNCHANGED <<recordStatus, handledEvents, llmResponse, checkResult,
                 compileScripts, maxTokens, sizedVars, cleanVars, compileVars,
                 sseVars, generationVars, pipelineVars, clientVars, thinkVars,
                 audioVars, wavVars, combineVars>>

InitRecord == PipelineIdle /\ OthersIdle

NextRecord ==
  \/ RecordRunStarts
  \/ RecordEventHandled
  \/ RecordRunCaught
  \/ RecordRunEnds

SpecRecord == InitRecord /\ [][NextRecord]_vars

\* -------------------------------------------------------------- properties
\* the calls of one stage, in issue order
CallsOf(stage) == SelectSeq(calls, LAMBDA c : c.stage = stage)

\* the events of one type sent on the stream, in order
SentOf(type) == SelectSeq(sent, LAMBDA e : e.type = type)

\* the emitted progress events that carry `error`
ErrorEvents == SelectSeq(events, LAMBDA e : e.ev.error)

\* C1: within one run the stages of the emitted progress events, yielded or
\* delivered to the callback, only move forward in the order outline,
\* search, script, combining, finalizing, on successful and on failing runs
\* alike.
C1_StagesMoveForward ==
  \A i \in 1..(Len(events) - 1) :
    StageRank(events[i].ev.stage) <= StageRank(events[i + 1].ev.stage)

\* a run with a callback fails while its second section is drafted
C1_Witness ==
  /\ pc = "threw"
  /\ hasCallback
  /\ thrown.kind = "draft"
  /\ thrown.at = 2
  /\ events[Len(events)] = Yd(ErrorEvent)

\* C2: over all progress events of a run in emission order, yielded and
\* delivered to the callback, `progress` never decreases, and on a
\* successful run the last event has progress 100.  Stated for the runs in
\* which every step of the research stage can be made.
C2_ProgressNeverDecreases ==
  (instructionsGiven /\ searchKeySet) =>
    /\ \A i \in 1..(Len(events) - 1) :
         events[i].ev.progress <= events[i + 1].ev.progress
    /\ pc = "done" => events[Len(events)].ev.progress = 100

\* C3: the stream of a successful run carries exactly one `done` event, the
\* last event sent; a stream with an `error` event carries no `done` event;
\* nothing is sent after the terminal event.
C3_DoneTerminates ==
  /\ pc = "done" =>
       /\ routePc = "finished"
       /\ Len(SentOf("done")) = 1
       /\ sent[Len(sent)] = DoneEvent
  /\ \A i \in 1..Len(sent) :
       sent[i].type \in {"done", "error"} =>
         /\ i = Len(sent)
         /\ routePc = "finished"
         /\ isControllerClosed
  /\ \A i, j \in 1..Len(sent) :
       ~(sent[i].type = "error" /\ sent[j].type = "done")

\* the route has finished a successful run
C3_Witness ==
  /\ routePc = "finished"
  /\ pc = "done"
  /\ streamState = "closed"
  /\ Len(SentOf("done")) = 1

\* C4: the stream of a successful run carries exactly one `complete` event,
\* holding the final compiled script, after the last progress event and
\* before `done`; a failed or cancelled run carries none, and the error
\* progress event never triggers one.
C4_OneCompleteOnSuccess ==
  \A n \in {Len(sent)} : \A completes \in {SentOf("complete")} :
    /\ pc = "done" =>
         /\ Len(completes) = 1
         /\ completes[1].ev.result = "final"
         /\ completes[1].ev.result = finalScript
         /\ n >= 3
         /\ sent[n - 2].type = "progress"
         /\ sent[n - 1].type = "complete"
         /\ sent[n].type = "done"
    /\ (pc \in {"threw", "returned"} \/ streamState = "cancelled") =>
         Len(completes) = 0
    /\ \A i \in 1..n :
         /\ sent[i].type = "complete" =>
              i > 1 /\ sent[i - 1] = Sse("progress", sent[i].ev)
         /\ (sent[i].type = "progress" /\ sent[i].ev.error) =>
              i = n \/ sent[i + 1].type # "complete"

\* the final script has been sent in a `complete` event and the run is over
C4_Witness ==
  /\ routePc = "finished"
  /\ pc = "done"
  /\ Len(SentOf("complete")) = 1
  /\ finalScript = "final"

\* C5: when a stage fails fatally the run emits exactly one progress event
\* carrying `error`, yielded or delivered to the callback, that event is the
\* last progress event of the run, and the generator then raises the error.
\* Stated for the runs in which every step of the research stage can be made.
C5_OneErrorEventLast ==
  (instructionsGiven /\ searchKeySet /\ thrown # NoError) =>
    /\ Len(ErrorEvents) = 1
    /\ events[Len(events)].ev.error
    /\ pc \in {"threw", "returned"}

\* C6: the outline stage makes at most 3 attempts, each with at most one
\* structured and one plain call; the attempt that passes the checks is the
\* last one; after 3 failed attempts one error is raised that carries the
\* error of the last attempt, and no research, script or compilation call
\* is made.
C6_OutlineAttempts ==
  \A oc \in {CallsOf("outline")} :
    /\ attempt <= 3
    /\ \A i \in 1..Len(oc) : oc[i].idx \in 1..3
    /\ \A i, j \in 1..Len(oc) :
         (i < j) => \/ oc[i].idx < oc[j].idx
                    \/ /\ oc[i].idx = oc[j].idx
                       /\ j = i + 1
                       /\ oc[i].mode = "structured"
                       /\ oc[i].outcome = "failed"
                       /\ oc[j].mode = "plain"
    /\ \A i \in 1..(Len(calls) - 1) :
         calls[i + 1].stage = "outline" => calls[i].stage = "outline"
    /\ nSections > 0 =>
         /\ oc[Len(oc)].idx = attempt
         /\ oc[Len(oc)].outcome = "ok"
         /\ thrown.kind # "outline_failed"
    /\ thrown.kind = "outline_failed" =>
         /\ thrown.at = 3
         /\ lastError.at = 3
         /\ thrown.cause = lastError.kind
         /\ nSections = 0
         /\ Len(oc) = Len(calls)
         /\ pc \in {"threw", "returned"}
    /\ (pc = "threw" /\ nSections = 0) =>
         /\ thrown.kind = "outline_failed"
         /\ Len(SelectSeq(events, LAMBDA e : e.src = "yield" /\ e.ev.error))
              = 1

\* three attempts have failed and the generator has raised the error
C6_Witness ==
  /\ pc = "threw"
  /\ thrown.kind = "outline_failed"
  /\ attempt = 3
  /\ Len(CallsOf("outline")) > 3

C8_DraftingInOrder ==
  \A sc \in {CallsOf("script")} :
    /\ \A j \in 1..Len(sc) : sc[j].section = j
    /\ Len(sc) <= nSections + 1
    /\ \A j \in 1..(Len(sc) - 1) : sc[j].outcome = "ok"
    /\ \A i \in 1..Len(calls) :
         (calls[i].stage = "script" /\ calls[i].outcome = "failed") =>
           /\ i = Len(calls)
           /\ thrown = Error("draft", calls[i].section, "transport")
           /\ pc \in {"threw", "returned"}
           /\ events[Len(events)] = Yd(ErrorEvent)
    /\ \A i \in 1..Len(calls) :
         calls[i].stage = "compile" =>
           /\ Len(sc) = nSections + 1
           /\ sc[Len(sc)].outcome = "ok"

\* the call that drafts the second section has failed and the run is over
C8_Witness ==
  /\ pc = "threw"
  /\ Len(CallsOf("script")) = 2
  /\ calls[Len(calls)].stage = "script"
  /\ calls[Len(calls)].outcome = "failed"

\* C9: the compilation stage issues at most two chat calls, the plain-prompt
\* call only after the structured-output call failed and only once; when the
\* plain-prompt call fails or the answer cannot be parsed the run aborts
\* with the error event and no final script is delivered.
C9_CompilationCalls ==
  \A cc \in {CallsOf("compile")} :
    /\ Len(cc) <= 2
    /\ Len(cc) >= 1 => cc[1].mode = "structured"
    /\ Len(cc) = 2 => cc[1].outcome = "failed" /\ cc[2].mode = "plain"
    /\ \A i \in 1..(Len(calls) - 1) :
         calls[i].stage = "compile" => calls[i + 1].stage = "compile"
    /\ (\/ thrown.kind \in {"compile_call", "compile_parse"}
        \/ Len(cc) = 2 /\ cc[2].outcome = "failed") =>
         /\ pc \in {"threw", "returned"}
         /\ events[Len(events)] = Yd(ErrorEvent)
         /\ finalScript = "empty"
         /\ \A i \in 1..Len(events) : events[i].ev.result # "final"
         /\ \A i \in 1..Len(sent) : sent[i].type # "complete"

\* both compilation calls have failed, the route has sent the error event
\* and the run is over
C9_Witness ==
  /\ pc = "threw"
  /\ thrown.kind = "compile_call"
  /\ Len(CallsOf("compile")) = 2
  /\ calls[Len(calls)].outcome = "failed"
  /\ sent[Len(sent)] = CatchEvent

\* C10: once the client has closed the stream, no chat or search call is
\* issued after the next stage boundary or per-section iteration the
\* pipeline reaches.
C10_NoCallAfterClose ==
  \A i \in 1..Len(calls) : ~calls[i].late

\* C11: in the route a send on a closed or cancelled stream never raises: it
\* enqueues nothing and reports failure, which ends the loop; the controller
\* is closed at most once on every path, and only while the stream is
\* readable.
C11_SendAfterCloseIsNoOp ==
  [][/\ (streamState # "readable" \/ isControllerClosed \/ isCancelled) =>
          sent' = sent
     /\ (streamState = "cancelled" /\ events' # events) =>
          /\ isControllerClosed'
          /\ pc' = "returned"
          /\ routePc' = "finished"
          /\ closeCalls' = closeCalls
     /\ closeCalls' <= 1
     /\ closeCalls' # closeCalls =>
          /\ closeCalls' = closeCalls + 1
          /\ streamState = "readable"
          /\ streamState' = "closed"
          /\ routePc' = "finished"]_vars

\* the client closed the stream, the next send failed and start() has ended
\* without a call of controller.close()
C11_Witness ==
  /\ streamState = "cancelled"
  /\ isControllerClosed
  /\ routePc = "finished"
  /\ closeCalls = 0
  /\ pc = "returned"

\* C12: for any interleaving of startGeneration calls at most one run per
\* generation key is active; a call made while the key is held creates no
\* record, issues no request and does not release the key; the key is held
\* exactly while its run is active, so it is released when the run ends, by
\* success, failure or cancellation.
C12_OneRunPerKey ==
  /\ \A c, d \in 1..Len(gen) :
       (Running(c) /\ Running(d) /\ gen[c].key = gen[d].key) => c = d
  /\ \A c \in 1..Len(gen) :
       /\ gen[c].pc = "skipped" =>
            gen[c].created = 0 /\ gen[c].requests = 0 /\ gen[c].deletes = 0
       /\ Running(c) => gen[c].key \in activeGenerations /\ gen[c].deletes = 0
       /\ gen[c].pc = "ended" => gen[c].deletes = 1
       /\ gen[c].requests <= 1 /\ gen[c].created <= 1
  /\ \A key \in activeGenerations :
       \E c \in 1..Len(gen) : Running(c) /\ gen[c].key = key

\* a call was turned away while the key was held, and the run that held the
\* key has ended and released it
C12_Witness ==
  /\ Len(gen) >= 2
  /\ gen[1].pc = "ended"
  /\ gen[2].pc = "skipped"
  /\ gen[2].key = gen[1].key
  /\ gen[1].key \notin activeGenerations

\* the positions of the upstream content that lie in a <think> span: from
\* the first character of an open tag to the last of its close tag
InThinkSpan ==
  LET all == [k \in 1..Len(upstream) |-> k]
      shown == FinalClean(upstream, all)
  IN {k \in 1..Len(upstream) : \A i \in 1..Len(shown) : shown[i] # k}

\* C13: however the upstream content is split into deltas, also inside a
\* tag, streamChatCompletion yields no text that lies between an open tag
\* and its close tag and no fragment of such an open tag.
C13_NoThinkTextYielded ==
  streamEnded =>
    \A hidden \in {InThinkSpan} :
      \A i \in 1..Len(yielded) : \A k \in 1..Len(yielded[i]) :
        yielded[i][k] \notin hidden

\* C14: no string yielded by streamChatCompletion contains the open tag,
\* neither one yielded for a delta nor the one yielded when the stream ends.
C14_NoOpenTagYielded ==
  \A i \in 1..Len(yielded) : \A k \in 1..Len(yielded[i]) :
    ~TagAt(upstream, yielded[i], k, OpenTag)

\* the deltas' progress events among the events sent on the stream
DeltaEventsSent ==
  SelectSeq(sent, LAMBDA m : /\ m.type = "progress"
                             /\ m.ev.stage = "script"
                             /\ m.ev.result = "partial")

\* C15: in a run of the generate-podcast route every delta of a streamed
\* script call has produced one progress event of stage `script` that was
\* sent to the client of the event stream, as long as the stream is open.
C15_DeltaEventsReachClient ==
  (driver = "route" /\ streamState = "readable" /\ ~isControllerClosed) =>
    Len(DeltaEventsSent) = delivered

\* C16: an emitted progress event of a stage comes after at least one event
\* of each earlier stage: no stage is skipped, on failing runs as well.
C16_NoStageSkipped ==
  \A i \in 1..Len(events) :
    \A r \in 1..(StageRank(events[i].ev.stage) - 1) :
      \E j \in 1..(i - 1) : StageRank(events[j].ev.stage) = r

\* the script indices of the segments dealt with so far that succeeded, in
\* script order
RECURSIVE SuccessfulUpTo(_)
SuccessfulUpTo(k) ==
  IF k = 0 THEN <<>>
  ELSE SuccessfulUpTo(k - 1)
         \o IF outcomes[k] = "ok" THEN <<k - 1>> ELSE <<>>

\* the segmentIndex of the segment_complete events sent, in order
CompleteIndices ==
  LET done == SelectSeq(audioSent, LAMBDA e : e.type = "segment_complete")
  IN [k \in 1..Len(done) |-> done[k].segmentIndex]

DeclaredPayload(b) ==
  LET declared == ReadUInt32LE(b, 40)
      follow == Len(b) - 44
  IN SubSeq(b, 45, 44 + IF declared < follow THEN declared ELSE follow)

\* the payloads of the first k inputs, in input order
RECURSIVE PayloadsUpTo(_)
PayloadsUpTo(k) ==
  IF k = 0 THEN <<>> ELSE PayloadsUpTo(k - 1) \o DeclaredPayload(wavBuffers[k])

\* C18: the bytes after the 44-byte header of the combined WAV are the
\* payloads of the inputs one after the other in input order; for one input
\* they are that input's payload.
C18_PayloadConcatenated ==
  wavResult = "ok" =>
    /\ SubSeq(combined, 45, Len(combined)) = PayloadsUpTo(Len(wavBuffers))
    /\ Len(wavBuffers) = 1 =>
         SubSeq(combined, 45, Len(combined)) = DeclaredPayload(wavBuffers[1])

\* two inputs with different payloads were combined, the first declaring
\* more bytes than follow its header
C18_Witness ==
  /\ wavResult = "ok"
  /\ Len(wavBuffers) = 2
  /\ DeclaredPayload(wavBuffers[1]) = <<7>>
  /\ DeclaredPayload(wavBuffers[2]) = <<9>>
  /\ ReadUInt32LE(wavBuffers[1], 40) > 1

\* C19: the combined WAV of a non-empty list is 44 bytes longer than the sum
\* of the payload lengths of the inputs, its data size field at offset 40
\* holds that sum and its RIFF size field at offset 4 its length less 8.
C19_HeaderSizes ==
  wavResult = "ok" =>
    \A total \in {Len(PayloadsUpTo(Len(wavBuffers)))} :
      /\ wavBuffers # <<>>
      /\ Len(combined) = 44 + total
      /\ ReadUInt32LE(combined, 40) = total
      /\ ReadUInt32LE(combined, 4) = Len(combined) - 8

\* two inputs were combined whose headers declare other sizes than the
\* payload they give
C19_Witness ==
  /\ wavResult = "ok"
  /\ Len(wavBuffers) = 2
  /\ Len(combined) = 45
  /\ ReadUInt32LE(wavBuffers[1], 40) = 16909060
  /\ ReadUInt32LE(wavBuffers[2], 40) = 0

\* nothing was saved under podcasts/, no document set, no file deleted
NoEffect == uploaded = 0 /\ ~metadataWritten /\ deleted = 0

\* C20: a combine-audio request without segments is answered with the error
\* "No audio segments provided"; a request of which a download failed is
\* answered with an error; in both cases nothing is uploaded, no metadata is
\* written and no segment file is deleted.
C20_RejectedWithoutEffect ==
  /\ (combinePc # "idle" /\ segments = 0) =>
       /\ response = Response(400, "No audio segments provided")
       /\ NoEffect
  /\ downloadFailed =>
       /\ combinePc = "responded"
       /\ response.status >= 400
       /\ response.error # "none"
       /\ NoEffect

\* the second download of a request with two segments failed
C20_Witness ==
  /\ downloadFailed
  /\ segments = 2
  /\ Len(wavBuffers) = 1
  /\ response = Response(400, "Failed to download audio segment")

MinLengthOfField(key) ==
  IF key = "id" THEN 3
  ELSE IF key \in {"title", "keyPoints", "keyTakeaways"} THEN 8
  ELSE 5

\* a string meets the data model as the string, or one of the strings, of
\* the field key
MeetsDataModel(value, key) ==
  /\ TrimmedLength(value) >= MinLengthOfField(key)
  /\ \A term \in placeholderTerms : ~Includes(ToLowerCase(value), term)

\* every string leaf of the object obj meets the data model
ObjectMeetsDataModel(obj) ==
  \A key \in DOMAIN obj :
    IF key \in {"keyPoints", "keyTakeaways"}
      THEN \A j \in 1..Len(obj[key]) : MeetsDataModel(obj[key][j], key)
      ELSE MeetsDataModel(obj[key], key)

OutlineMeetsDataModel(outline) ==
  /\ ObjectMeetsDataModel(outline.overview)
  /\ \A i \in 1..Len(outline.sections) :
       ObjectMeetsDataModel(outline.sections[i])
  /\ ObjectMeetsDataModel(outline.finalThoughts)

\* C22: every outline an attempt of the outline stage returns meets the data
\* model: each of its strings has the minimum length of its field and holds
\* no term of the placeholder denylist.
C22_AcceptedOutlineValid ==
  (checkResult.op = "attempt" /\ checkResult.error = "none") =>
    OutlineMeetsDataModel(llmResponse.outline)

\* C23: when the parser runs with validation on and the outline of a
\* response that is JSON fails the validation, the error raised is the
\* content-validation error: not a parse failure, and not none.
C23_ValidationErrorDistinct ==
  (/\ checkResult.op = "parse"
   /\ llmResponse.syntax = "valid"
   /\ ValidateOutlineContent(llmResponse.outline) # <<>>) =>
    checkResult.error = "Content validation failed"

\* C24: validateOutlineContent raises exactly when some string leaf of the
\* overview, a section or the final thoughts holds a denylist term or is
\* shorter than the minimum length of its field.
C24_ValidatorExact ==
  checkResult.op = "validate" =>
    ((checkResult.error # <<>>) <=> ~OutlineMeetsDataModel(llmResponse.outline))


\* C25 (as amended): when the search API key is not configured no search
\* call reaches the service, the research stage still completes, and once
\* the script stage is entered every section carries a searchContext that
\* holds no result; only when the generation of the queries itself has
\* thrown do the sections carry no searchContext
C25_UnconfiguredSearchHarmless ==
  (~searchKeySet /\ calls # <<>>) =>
    /\ pc # "search"
    /\ \A last \in {calls[Len(calls)].stage} :
         /\ last # "search"
         /\ last = "script" =>
              IF QueryGenerationThrows
                THEN searchContext = <<>>
                ELSE /\ Len(searchContext) = nSections
                     /\ \A k \in 1..nSections : searchContext[k] = 0

\* without the key and with instructions, the outline was accepted and the
\* first section is being drafted
C25_Witness ==
  /\ ~searchKeySet
  /\ ~QueryGenerationThrows
  /\ pc = "stream"
  /\ nSections = MinSections
  /\ Len(searchContext) = nSections
  /\ calls[Len(calls)].stage = "script"

\* C25 (as stated): when the search API key is not configured no search call
\* reaches the service, the research stage completes, and every section
\* reaches the script stage without a searchContext
C25_UnconfiguredSearchNoField ==
  (~searchKeySet /\ calls # <<>>) =>
    /\ pc # "search"
    /\ \A last \in {calls[Len(calls)].stage} :
         /\ last # "search"
         /\ last = "script" => searchContext = <<>>

\* C26: from the research stage on the list of sections keeps its length and
\* order, a searchContext or a script once attached to a section stays with
\* the same value in every later state of the run, and in the outline the
\* run returns every section has its script and the searchContext the
\* research stage gave it
C26_SectionsAdditive ==
  [][/\ nSections > 0 => nSections' = nSections
     /\ Len(searchContext) <= Len(searchContext')
     /\ \A k \in 1..Len(searchContext) : searchContext'[k] = searchContext[k]
     /\ Len(scripted) <= Len(scripted')
     /\ \A k \in 1..Len(scripted) : scripted'[k] = scripted[k]
     /\ Len(searchContext') <= nSections'
     /\ Len(scripted') <= nSections'
     /\ Len(scripted') > 0 =>
          Len(searchContext') = IF QueryGenerationThrows THEN 0 ELSE nSections'
     /\ pc' = "done" => Len(scripted') = nSections']_vars

\* a run has returned an outline of three sections whose searchContexts and
\* scripts are not all the same
C26_Witness ==
  /\ pc = "done"
  /\ nSections = MinSections
  /\ Len(searchContext) = nSections
  /\ Len(scripted) = nSections
  /\ searchContext[1] # searchContext[2]
  /\ scripted[1] # scripted[2]

\* C27: a failure of a persistence call (creating the record, resetting or
\* updating its progress, saving the result, recording an error event) never
\* stops a run: when the request itself did not fail, the client handles
\* every event of the body, hands the script of every complete event to
\* onComplete, and the call ends as completed
C27_PersistenceNeverStops ==
  /\ (run.pc \in {"fetching", "reading", "persisting"} \/ ~run.requestFailed)
       => run.outcome # "failed"
  /\ (run.pc = "ended" /\ ~run.requestFailed) =>
       /\ run.outcome = "completed"
       /\ run.handled = Len(run.body)
       /\ Len(run.completions) =
            IF run.onComplete
              THEN Cardinality({i \in 1..Len(run.body) :
                                 run.body[i] = "complete"})
              ELSE 0

\* the reset of the record of a run, the write of its progress event and the
\* saving of its result have all failed: the script was still handed to
\* onComplete, the event after it was handled and the call ended as completed
C27_Witness ==
  /\ run.pc = "ended"
  /\ run.outcome = "completed"
  /\ run.body = <<"progress", "complete", "done">>
  /\ Len(run.persisted) = 3
  /\ \A i \in 1..3 : ~run.persisted[i].ok
  /\ Len(run.completions) = 1

\* the characters of the scripts of a list, blank or not
RECURSIVE TotalCharacters(_)
TotalCharacters(list) ==
  IF list = <<>> THEN 0 ELSE Head(list).length + TotalCharacters(Tail(list))

\* the characters of the scripts of a list that are not blank
RECURSIVE CountedCharacters(_)
CountedCharacters(list) ==
  IF list = <<>> THEN 0
  ELSE (IF Head(list).blank THEN 0 ELSE Head(list).length)
       + CountedCharacters(Tail(list))

C29_UnknownSpeakerFatal ==
  /\ \A k \in 1..Len(apiCalls) : Voice(speakers[apiCalls[k] + 1]) # "undefined"
  /\ (audioPc = "finished"
      /\ \E i \in 1..Len(outcomes) : Voice(speakers[i]) = "undefined") =>
       /\ audioSent[Len(audioSent)].type = "error"
       /\ \A k \in 1..Len(audioSent) : audioSent[k].type # "complete"

\* sample rate, bit depth and channel count a complete header declares
WavFormat(buffer) ==
  <<ReadUInt32LE(buffer, 24), ReadUInt16LE(buffer, 34),
    ReadUInt16LE(buffer, 22)>>

\* C30: combining buffers whose sample rate, bit depth or channel count
\* differ fails: combineWavBuffers throws, so that the route answers with an
\* error and uploads no combined file
C30_MismatchedFormatsFatal ==
  (/\ wavResult # "none"
   /\ \E i, j \in 1..Len(wavBuffers) :
        /\ Len(wavBuffers[i]) >= 44
        /\ Len(wavBuffers[j]) >= 44
        /\ WavFormat(wavBuffers[i]) # WavFormat(wavBuffers[j]))
    => wavResult = "threw"

\* C31: the duration recorded for a combined file is its number of data
\* bytes divided by sample rate x bytes per sample x channels of its own
\* header, rounded to the nearest second, whatever the format
C31_DurationByOwnFormat ==
  duration # -1 =>
    duration = RoundDiv(combinedAudioBuffer.dataLength,
                        ReadUInt32LE(combinedAudioBuffer.header, 24)
                          * (ReadUInt16LE(combinedAudioBuffer.header, 34) \div 8)
                          * ReadUInt16LE(combinedAudioBuffer.header, 22))

\* C32: in mock mode a segment is a header of 44 bytes with the sizes of
\* 264,600 data bytes, mono, 44100 Hz, 16 bit, followed by 264,600 zero
\* bytes; two such segments combine to a data size of 529,200 bytes and an
\* estimated duration of 6 seconds
C32_MockSegmentsCombine ==
  \A k \in 1..Len(audioBuffers) :
    audioBuffers[k].zero =>
      /\ Len(audioBuffers[k].header) = 44
      /\ ReadUInt32LE(audioBuffers[k].header, 4) = 264600 + 44 - 8
      /\ ReadUInt32LE(audioBuffers[k].header, 40) = 264600
      /\ ReadUInt16LE(audioBuffers[k].header, 22) = 1
      /\ ReadUInt32LE(audioBuffers[k].header, 24) = 44100
      /\ ReadUInt32LE(audioBuffers[k].header, 28) = 88200
      /\ ReadUInt16LE(audioBuffers[k].header, 32) = 2
      /\ ReadUInt16LE(audioBuffers[k].header, 34) = 16
      /\ audioBuffers[k].dataLength = 264600
      /\ (Len(audioBuffers) = 2 /\ audioBuffers[3 - k].zero) =>
           /\ combinedAudioBuffer.header # <<>> =>
                /\ ReadUInt32LE(combinedAudioBuffer.header, 40) = 529200
                /\ combinedAudioBuffer.dataLength = 529200
                /\ combinedAudioBuffer.zero
           /\ duration # -1 => duration = 6

\* two mock segments were combined and the duration was estimated
C32_Witness ==
  /\ audioBuffers = <<MockAudioSegment, MockAudioSegment>>
  /\ duration = 6
  /\ combinedAudioBuffer.dataLength = 529200

\* C33: cleaning a text a second time changes nothing: cleanResponseForJSON
\* applied to what it returned returns the same text
C33_CleanIdempotent ==
  cleanPc = "twice" => cleanedAgain = cleaned

\* the exchanges 1..n are lines of the script, in this order: lines[from..]
\* holds the exchanges k..n as a subsequence
RECURSIVE HoldsInOrder(_, _, _, _)
HoldsInOrder(lines, from, k, n) ==
  IF k > n THEN TRUE
  ELSE \E i \in from..Len(lines) :
         /\ lines[i] = k
         /\ HoldsInOrder(lines, i + 1, k + 1, n)

\* C34: every dialogue exchange of the section scripts is a line of the
\* compiled script, and the exchanges keep their order: the compilation only
\* adds lines
C34_DialoguePreserved ==
  compilePc = "compiled" =>
    HoldsInOrder(compiledScript, 1, 1, promptExchanges)

\* C35: in each outline attempt the structured-output call comes first; the
\* plain-prompt call is issued only after the structured call of the same
\* attempt failed, and a failed structured call is followed by it; the
\* stage issues at most 6 chat calls.
C35_StructuredThenPlain ==
  \A oc \in {CallsOf("outline")} :
    /\ Len(oc) <= 6
    /\ \A i \in 1..Len(oc) :
         /\ oc[i].kind = "chat"
         /\ (i = 1 \/ oc[i - 1].idx # oc[i].idx) => oc[i].mode = "structured"
         /\ oc[i].mode = "plain" =>
              /\ i > 1
              /\ oc[i - 1].mode = "structured"
              /\ oc[i - 1].outcome = "failed"
              /\ oc[i - 1].idx = oc[i].idx
         /\ (oc[i].mode = "structured" /\ oc[i].outcome = "failed") =>
              /\ i < Len(oc)
              /\ oc[i + 1].mode = "plain"
              /\ oc[i + 1].idx = oc[i].idx

\* all three attempts made both calls: six outline calls, and an outline
\* accepted from the last plain-prompt call
C35_Witness ==
  /\ Len(CallsOf("outline")) = 6
  /\ CallsOf("outline")[6].mode = "plain"
  /\ CallsOf("outline")[6].outcome = "ok"
  /\ nSections > 0

\* the deltas yielded so far, concatenated
RECURSIVE YieldedText(_)
YieldedText(n) ==
  IF n = 0 THEN <<>> ELSE YieldedText(n - 1) \o yielded[n]

\* C36: when the stream has ended, with or without [DONE], the yielded
\* deltas concatenated are the upstream content with every complete think
\* span removed: no character outside a span is lost or reordered.
C36_StreamEqualsCleanedContent ==
  streamEnded =>
    YieldedText(Len(yielded))
      = FinalClean(upstream, [k \in 1..Len(upstream) |-> k])

\* C37: however the body is split into chunks, when the stream has ended
\* the client has handled every event the route sent exactly once, in the
\* order sent.
C37_EveryEventHandledOnce ==
  ssePc = "done" => sseHandled = [i \in 1..sseFrames |-> i]

\* C38: when startAudioGeneration is over, the generating state has been
\* left, however the stream ended, and an error event that was read is
\* shown to the user.
C38_GeneratingStateLeft ==
  genPc = "returned" =>
    /\ ~isGenerating
    /\ errorEvents > 0 => genError # "none"

\* C39: in the generate-audio route, once the client has closed the stream
\* no send raises: start() goes on to the end of the segment loop and its
\* final close, and never ends with an error that nothing handles.
C39_SendAfterCloseSilent ==
  audioStream = "cancelled" => audioPc # "rejected"

\* the handled events that write the record
WritingEvents == SelectSeq(handledEvents, LAMBDA e : e.type # "done")

=========================================================================
